---- MODULE Spec2Model ----
(***************************************************************************)
(* Model of the step orchestrator (runner/orchestrator.py, run_plan) and   *)
(* of the recovery routine (runner/recovery.py, recover_step).  The        *)
(* perception source, the executor, the verification router and the file   *)
(* system are the environment: every call draws its outcome from the set   *)
(* of outcomes the callee can produce (a value, or a raised fault where    *)
(* the callee lets one escape).                                            *)
(*                                                                         *)
(* The specifications share the variables:                                *)
(*   Spec     run_plan over a plan, as main.py starts it;                  *)
(*   RecSpec  one call of recover_step with arbitrary arguments;           *)
(*   VerSpec  one call of verify_step (runner/verifier.py) on a surface;   *)
(*   LocSpec  locate_element_for_intent and locate_top_candidates          *)
(*            (runner/locator.py) for one intent and one snapshot.         *)
(*   PlanSpec calls of get_or_generate_plan (planner/cache_manager.py)     *)
(*            over the files of the plan directory.                        *)
(*   ExeSpec  two calls of execute_action (runner/executor.py) for one     *)
(*            intent on one surface, with different element records.       *)
(* In Spec and RecSpec an element carries the score the scorer gives it    *)
(* and the verdict of the verifier is drawn from BOOLEAN; VerSpec and      *)
(* LocSpec compute both from strings, which are sequences of characters.   *)
(***************************************************************************)
EXTENDS Integers, Sequences, FiniteSets, TLC

\* ------------------------------------------------------------------ bounds
MaxPlan == 2          \* longest plan explored
MaxSnapshot == 2      \* most elements in one perception snapshot
MaxAttempts == 2      \* largest max_attempts explored
MaxCalls == 3         \* most calls of get_or_generate_plan explored

\* ------------------------------------------------------- program constants
DefaultMaxAttempts == 2   \* recover_step(..., max_attempts: int = 2)
TopK == 5                 \* locate_top_candidates(intent, perception_path, k=5)
ExcludedScore == -100     \* _score_element returns -1.0 (scores are in 1/100)

VARIABLES
    \* ---- run_plan
    plan,              \* the loaded plan: a sequence of steps
    step_idx,          \* 1-based index of the step in progress (0: loop not entered)
    pc,                \* position of run_plan
    perception_data,   \* content of step_<step_idx>/perception.json
    element,           \* locate_element_for_intent's answer for this step
    result,            \* execute_action's answer for this step
    ok,                \* verify_step's answer for this step
    step_json,         \* step_json[d]: content of step_<d>/step.json
    touched,           \* touched[d][f]: how often a write addressed file f of step_<d>
    missed,            \* steps whose resolution found no element
    fault,             \* the fault that ended the run, "none" while running
    page,              \* the browser surface the verifier probes
    probe_fault,       \* the probe of the surface that raised, "none" if none did
    \* ---- recover_step
    rpc,               \* position of recover_step
    attempt,           \* parameter attempt of the innermost frame
    attempt0,          \* parameter attempt of the outermost call
    max_attempts,      \* parameter max_attempts
    previous_element,  \* parameter previous_element
    candidates,        \* local candidates of the innermost frame
    ordered,           \* local ordered of the innermost frame
    idx,               \* 1-based position of the for loop over ordered
    depth,             \* number of recover_step frames on the stack
    ret,               \* value returned to the caller of the outermost call
    last_result,       \* local result of the innermost frame
    last_failed,       \* bounding box of the choice that failed most recently
    \* ---- get_or_generate_plan
    plan_files,        \* the files under PLANS_DIR: records of a path and its content
    call,              \* the latest call of get_or_generate_plan and how it ended
    \* ---- execute_action
    runs,              \* runs[i]: the i-th of the calls compared on one surface
    \* ---- both
    log                \* the calls made so far, in order

ovars == <<plan, step_idx, pc, perception_data, element, result, ok,
           step_json, touched, missed, fault, page, probe_fault>>
xvars == <<plan_files, call, runs>>
rvars == <<rpc, attempt, attempt0, max_attempts, previous_element, candidates,
           ordered, idx, depth, ret, last_result, last_failed>>
vars == <<plan, step_idx, pc, perception_data, element, result, ok,
          step_json, touched, missed, fault, page, probe_fault,
          rpc, attempt, attempt0, max_attempts, previous_element, candidates,
          ordered, idx, depth, ret, last_result, last_failed,
          plan_files, call, runs, log>>

\* ------------------------------------------------------------ value domains
\* A score is a fraction num/den with den > 0: _score_element adds fractions
\* of string lengths and of token counts to bonuses given in 1/100.
Hundredths(n) == [num |-> n, den |-> 100]
ScoreGT(a, b) == a.num * b.den > b.num * a.den

\* An element record of perception.json.  score stands for the value
\* _score_element gives the element for the step's intent.
ScoreValues == {ExcludedScore, 10, 20}
\* the bounding boxes <<x, y, width, height>> an element can have
Boxes == {<<0, 0, 40, 20>>, <<60, 0, 40, 20>>}
NoBox == <<-1, -1, 0, 0>>
Elements == {[x |-> b[1], y |-> b[2], width |-> b[3], height |-> b[4],
              score |-> Hundredths(s)] : b \in Boxes, s \in ScoreValues}
BoxOf(el) == <<el.x, el.y, el.width, el.height>>
None == [x |-> -1, y |-> -1, width |-> 0, height |-> 0,
         score |-> Hundredths(ExcludedScore)]

RECURSIVE SeqsUpTo(_, _)
SeqsUpTo(S, n) ==
    IF n = 0 THEN {<<>>}
    ELSE LET shorter == SeqsUpTo(S, n - 1)
         IN  shorter \cup {Append(s, e) : s \in {t \in shorter : Len(t) = n - 1}, e \in S}

Snapshots == SeqsUpTo(Elements, MaxSnapshot)

PlanSteps == {[intent |-> "i1", expected_state |-> "e1"]}
Plans == SeqsUpTo(PlanSteps, MaxPlan)

NoResult == [status |-> "none", element |-> None]
NoRecord == [step_id |-> 0, executor_status |-> "none", verified |-> FALSE]
NoReturn == [recovered |-> FALSE, attempts |-> -1, result |-> NoResult]

\* the surface of the specifications that do not probe it
NoPage == [dialogs |-> <<>>, textboxes |-> <<>>, url |-> <<>>, texts |-> {}, controls |-> {}]

\* no call of get_or_generate_plan made yet
NoCall == [n |-> 0, app_name |-> <<>>, task |-> <<>>, existed |-> FALSE,
           outcome |-> "none", value |-> <<>>]

Event(ev, k, n) == [ev |-> ev, step |-> k, attempt |-> n]

\* number of calls ev logged for step k
Count(ev, k) == Cardinality({i \in 1..Len(log) : log[i].ev = ev /\ log[i].step = k})
\* number of calls ev logged by recovery attempt n
CountA(ev, n) == Cardinality({i \in 1..Len(log) : log[i].ev = ev /\ log[i].attempt = n})
CountEv(ev) == Cardinality({i \in 1..Len(log) : log[i].ev = ev})

\* ------------------------------------------------------------------ locator
\* scored.sort(key=lambda x: x[0], reverse=True): descending by score, elements
\* of equal score keep their order (Python's sort is stable, also reversed).
RECURSIVE InsertByScore(_, _)
InsertByScore(sorted, el) ==
    IF sorted = <<>> THEN <<el>>
    ELSE IF ~ScoreGT(el.score, Head(sorted).score)
         THEN <<Head(sorted)>> \o InsertByScore(Tail(sorted), el)
         ELSE <<el>> \o sorted

RECURSIVE SortByScore(_)
SortByScore(s) ==
    IF s = <<>> THEN <<>>
    ELSE InsertByScore(SortByScore(SubSeq(s, 1, Len(s) - 1)), s[Len(s)])

\* Scored that keeps the elements of score -1.0
Scored_keep_excluded(perceived) == SortByScore(perceived)

\* the loop "if s > -1.0: scored.append((s, el))" followed by the sort
Scored(perceived) ==
    SortByScore(SelectSeq(perceived,
                          LAMBDA el : ScoreGT(el.score, Hundredths(ExcludedScore))))

Max(a, b) == IF a >= b THEN a ELSE b
Min(a, b) == IF a <= b THEN a ELSE b

locate_element_for_intent(perceived) ==
    LET scored == Scored(perceived)
    IN  IF scored = <<>> THEN None ELSE scored[1]

\* locate_top_candidates without the floor of one element
locate_top_candidates_no_floor(perceived, k) ==
    LET scored == Scored(perceived)
    IN  IF scored = <<>> THEN <<>>
        ELSE SubSeq(scored, 1, Min(Len(scored), k))

locate_top_candidates(perceived, k) ==
    LET scored == Scored(perceived)
    IN  IF scored = <<>> THEN <<>>
        ELSE SubSeq(scored, 1, Min(Len(scored), Max(1, k)))

\* ----------------------------------------------------------------- run_plan
\* the artifacts of a step directory; "captures" are before.png and after.png,
\* which one call of execute_action takes
Files == {"ax_tree.json", "perception.json", "captures", "step.json"}
Untouched == [d \in 1..MaxPlan |-> [f \in Files |-> 0]]
\* step_dir = os.path.join(dataset_dir, f"step_{step_id}"): one more write
\* addressed to each of the given files of directory d
Touch(d, files) ==
    [touched EXCEPT ![d] = [f \in Files |-> IF f \in files THEN @[f] + 1 ELSE @[f]]]

Raise(kind) ==
    /\ pc' = "raised"
    /\ fault' = kind

Init ==
    /\ plan \in Plans
    /\ step_idx = 0
    /\ pc = "loop"
    /\ perception_data = <<>>
    /\ element = None
    /\ result = NoResult
    /\ ok = FALSE
    /\ step_json = [d \in 1..MaxPlan |-> NoRecord]
    /\ touched = Untouched
    /\ plan_files = {}
    /\ call = NoCall
    /\ runs = <<>>
    /\ missed = {}
    /\ fault = "none"
    /\ page = NoPage
    /\ probe_fault = "none"
    /\ rpc = "idle"
    /\ attempt = 0
    /\ attempt0 = 0
    /\ max_attempts = DefaultMaxAttempts
    /\ previous_element = None
    /\ candidates = <<>>
    /\ ordered = <<>>
    /\ idx = 0
    /\ depth = 0
    /\ ret = NoReturn
    /\ last_result = NoResult
    /\ last_failed = NoBox
    /\ log = <<>>

\* for step_idx, step in enumerate(plan, start=1): fetch the next step, or
\* leave the loop when the plan is used up; the next step's directory holds
\* no perception.json yet
LoopNext ==
    /\ pc = "loop"
    /\ IF step_idx < Len(plan)
       THEN /\ step_idx' = step_idx + 1
            /\ pc' = "perceive"
       ELSE /\ pc' = "close"
            /\ UNCHANGED step_idx
    /\ perception_data' = <<>>
    /\ element' = None
    /\ result' = NoResult
    /\ ok' = FALSE
    /\ UNCHANGED <<touched, probe_fault, page, plan, xvars, step_json, missed, fault, log>>
    /\ UNCHANGED rvars

\* 1) perception_data = await capture_perception(...): a fresh snapshot is
\* written to the step's perception.json, or the surface raises
Perceive ==
    /\ pc = "perceive"
    /\ \/ \E snap \in Snapshots :
            /\ perception_data' = snap
            /\ touched' = Touch(step_idx, {"ax_tree.json", "perception.json"})
            /\ log' = Append(log, Event("perceive", step_idx, 0))
            /\ pc' = "locate"
            /\ UNCHANGED fault
       \/ /\ Raise("surface")
          /\ UNCHANGED <<perception_data, touched, log>>
    /\ UNCHANGED <<probe_fault, page, plan, xvars, step_idx, element, result, ok, step_json, missed>>
    /\ UNCHANGED rvars

\* 2) element = locate_element_for_intent(intent, perception_path)
Locate ==
    /\ pc = "locate"
    /\ element' = locate_element_for_intent(perception_data)
    /\ log' = Append(log, Event("locate", step_idx, 0))
    /\ IF element' = None
       THEN /\ missed' = missed \cup {step_idx}
            /\ pc' = "persist_skip"
       ELSE /\ pc' = "execute"
            /\ UNCHANGED missed
    /\ UNCHANGED <<touched, probe_fault, page, plan, xvars, step_idx, perception_data, result, ok, step_json, fault>>
    /\ UNCHANGED rvars

\* PersistSkipped with "break" in the place of "continue"
PersistSkipped_break ==
    /\ pc = "persist_skip"
    /\ \/ /\ step_json' = [step_json EXCEPT ![step_idx] =
                              [step_id |-> step_idx,
                               executor_status |-> "skipped_no_element",
                               verified |-> FALSE]]
          /\ log' = Append(log, Event("persist", step_idx, 0))
          /\ pc' = "close"
          /\ UNCHANGED fault
       \/ /\ Raise("write")
          /\ UNCHANGED <<step_json, log>>
    /\ touched' = Touch(step_idx, {"step.json"})
    /\ UNCHANGED <<probe_fault, page, plan, xvars, step_idx, perception_data, element, result, ok, missed>>
    /\ UNCHANGED rvars

\* if not element: write the skipped record, then continue
PersistSkipped ==
    /\ pc = "persist_skip"
    /\ \/ /\ step_json' = [step_json EXCEPT ![step_idx] =
                              [step_id |-> step_idx,
                               executor_status |-> "skipped_no_element",
                               verified |-> FALSE]]
          /\ log' = Append(log, Event("persist", step_idx, 0))
          /\ pc' = "loop"
          /\ UNCHANGED fault
       \/ /\ Raise("write")
          /\ UNCHANGED <<step_json, log>>
    /\ touched' = Touch(step_idx, {"step.json"})
    /\ UNCHANGED <<probe_fault, page, plan, xvars, step_idx, perception_data, element, result, ok, missed>>
    /\ UNCHANGED rvars

\* Execute taking its two screenshots in the first step's directory
Execute_shared_captures ==
    /\ pc = "execute"
    /\ \/ \E status \in {"success", "fail"} :
            /\ result' = [status |-> status, element |-> element]
            /\ touched' = Touch(1, {"captures"})
            /\ log' = Append(log, Event("execute", step_idx, 0))
            /\ pc' = "verify"
            /\ UNCHANGED fault
       \/ /\ Raise("surface")
          /\ touched' = Touch(1, {"captures"})
          /\ UNCHANGED <<result, log>>
    /\ UNCHANGED <<probe_fault, page, plan, xvars, step_idx, perception_data, element, ok, step_json, missed>>
    /\ UNCHANGED rvars

\* 3) result = await execute_action(...): status success or fail, with
\* before.png and after.png taken in the step's directory; the first
\* screenshot of execute_action is outside its try block and may raise
\* (after.png is then not taken)
Execute ==
    /\ pc = "execute"
    /\ \/ \E status \in {"success", "fail"} :
            /\ result' = [status |-> status, element |-> element]
            /\ touched' = Touch(step_idx, {"captures"})
            /\ log' = Append(log, Event("execute", step_idx, 0))
            /\ pc' = "verify"
            /\ UNCHANGED fault
       \/ /\ Raise("surface")
          /\ touched' = Touch(step_idx, {"captures"})
          /\ UNCHANGED <<result, log>>
    /\ UNCHANGED <<probe_fault, page, plan, xvars, step_idx, perception_data, element, ok, step_json, missed>>
    /\ UNCHANGED rvars

\* Verify passing over the verifier when the executor answered fail
Verify_skipped_on_fail ==
    /\ pc = "verify"
    /\ \/ /\ result.status = "fail"
          /\ ok' = FALSE
          /\ pc' = "persist"
          /\ UNCHANGED <<fault, log>>
       \/ \E verdict \in BOOLEAN :
            /\ result.status # "fail"
            /\ ok' = verdict
            /\ log' = Append(log, Event("verify", step_idx, 0))
            /\ pc' = "persist"
            /\ UNCHANGED fault
       \/ /\ Raise("surface")
          /\ UNCHANGED <<ok, log>>
    /\ UNCHANGED <<touched, probe_fault, page, plan, xvars, step_idx, perception_data, element, result, step_json, missed>>
    /\ UNCHANGED rvars

\* 4) ok = await verify_step(page, intent, expected)
Verify ==
    /\ pc = "verify"
    /\ \/ \E verdict \in BOOLEAN :
            /\ ok' = verdict
            /\ log' = Append(log, Event("verify", step_idx, 0))
            /\ pc' = "persist"
            /\ UNCHANGED fault
       \/ /\ Raise("surface")
          /\ UNCHANGED <<ok, log>>
    /\ UNCHANGED <<touched, probe_fault, page, plan, xvars, step_idx, perception_data, element, result, step_json, missed>>
    /\ UNCHANGED rvars

\* Persist writing every record to the first step's directory
Persist_shared_dir ==
    /\ pc = "persist"
    /\ \/ /\ step_json' = [step_json EXCEPT ![1] =
                              [step_id |-> step_idx,
                               executor_status |-> result.status,
                               verified |-> ok]]
          /\ log' = Append(log, Event("persist", step_idx, 0))
          /\ pc' = "sleep"
          /\ UNCHANGED fault
       \/ /\ Raise("write")
          /\ UNCHANGED <<step_json, log>>
    /\ touched' = Touch(1, {"step.json"})
    /\ UNCHANGED <<probe_fault, page, plan, xvars, step_idx, perception_data, element, result, ok, missed>>
    /\ UNCHANGED rvars

\* Persist leaving the loop when the step did not succeed
Persist_abort_on_failure ==
    /\ pc = "persist"
    /\ \/ /\ step_json' = [step_json EXCEPT ![step_idx] =
                              [step_id |-> step_idx,
                               executor_status |-> result.status,
                               verified |-> ok]]
          /\ log' = Append(log, Event("persist", step_idx, 0))
          /\ pc' = IF result.status = "success" /\ ok THEN "sleep" ELSE "close"
          /\ UNCHANGED fault
       \/ /\ Raise("write")
          /\ UNCHANGED <<step_json, log>>
    /\ touched' = Touch(step_idx, {"step.json"})
    /\ UNCHANGED <<probe_fault, page, plan, xvars, step_idx, perception_data, element, result, ok, missed>>
    /\ UNCHANGED rvars

\* Persist per-step metadata: the step's record is written right after the
\* verdict; run_plan makes no call of recover_step in between
Persist ==
    /\ pc = "persist"
    /\ \/ /\ step_json' = [step_json EXCEPT ![step_idx] =
                              [step_id |-> step_idx,
                               executor_status |-> result.status,
                               verified |-> ok]]
          /\ log' = Append(log, Event("persist", step_idx, 0))
          /\ pc' = "sleep"
          /\ UNCHANGED fault
       \/ /\ Raise("write")
          /\ UNCHANGED <<step_json, log>>
    /\ touched' = Touch(step_idx, {"step.json"})
    /\ UNCHANGED <<probe_fault, page, plan, xvars, step_idx, perception_data, element, result, ok, missed>>
    /\ UNCHANGED rvars

\* await asyncio.sleep(1.0), the end of the loop body
Sleep ==
    /\ pc = "sleep"
    /\ log' = Append(log, Event("sleep", step_idx, 0))
    /\ pc' = "loop"
    /\ UNCHANGED <<touched, probe_fault, page, plan, xvars, step_idx, perception_data, element, result, ok,
                   step_json, missed, fault>>
    /\ UNCHANGED rvars

\* await browser.close() after the loop
Close ==
    /\ pc = "close"
    /\ pc' = "done"
    /\ UNCHANGED <<touched, probe_fault, page, plan, xvars, step_idx, perception_data, element, result, ok,
                   step_json, missed, fault, log>>
    /\ UNCHANGED rvars

Next ==
    \/ LoopNext
    \/ Perceive
    \/ Locate
    \/ PersistSkipped
    \/ Execute
    \/ Verify
    \/ Persist
    \/ Sleep
    \/ Close

Spec == Init /\ [][Next]_vars

\* run_plan is a single coroutine that asyncio.run drives to its end
FairSpec == Spec /\ WF_vars(Next)

\* ------------------------------------------------------------- recover_step
\* def _is_same(a, b): False when either is missing, else equality of the
\* (x, y, width, height) tuples
is_same(a, b) ==
    IF a = None \/ b = None THEN FALSE
    ELSE <<a.x, a.y, a.width, a.height>> = <<b.x, b.y, b.width, b.height>>

\* candidates = locate_top_candidates(intent, perception_path, k=5) or [];
\* if not candidates: fall back to the single best element
Candidates(perceived) ==
    LET top == locate_top_candidates(perceived, TopK)
        el == locate_element_for_intent(perceived)
    IN  IF top # <<>> THEN top
        ELSE IF el # None THEN <<el>> ELSE <<>>

\* ordered = the candidates that are not _is_same as previous_element, or all
\* candidates when that leaves nothing
Ordered(prev, cands) ==
    LET kept == SelectSeq(cands, LAMBDA el : ~is_same(prev, el))
    IN  IF kept = <<>> /\ cands # <<>> THEN cands ELSE kept

\* the elements the locator can have handed to the caller
Locatable == {el \in Elements : ScoreGT(el.score, Hundredths(ExcludedScore))}

\* A caller awaits recover_step(page, ..., step_idx, intent, expected,
\* previous_element, attempt, max_attempts), with attempt at its default 1 or
\* beyond the ceiling.  The step's perception.json still holds the snapshot
\* previous_element was chosen from.
RecInit ==
    /\ plan = <<[intent |-> "i1", expected_state |-> "e1"]>>
    /\ step_idx = 1
    /\ pc = "recover"
    /\ previous_element \in Locatable \cup {None}
    /\ perception_data = IF previous_element = None THEN <<>> ELSE <<previous_element>>
    /\ element = previous_element
    /\ result = NoResult
    /\ ok = FALSE
    /\ step_json = [d \in 1..MaxPlan |-> NoRecord]
    /\ touched = Untouched
    /\ plan_files = {}
    /\ call = NoCall
    /\ runs = <<>>
    /\ missed = {}
    /\ fault = "none"
    /\ page = NoPage
    /\ probe_fault = "none"
    /\ rpc = "call"
    /\ max_attempts \in 0..MaxAttempts
    /\ attempt0 \in {1, max_attempts + 1, max_attempts + 2}
    /\ attempt = attempt0
    /\ candidates = <<>>
    /\ ordered = <<>>
    /\ idx = 0
    /\ depth = 1
    /\ ret = NoReturn
    /\ last_result = NoResult
    /\ last_failed = IF previous_element = None THEN NoBox ELSE BoxOf(previous_element)
    /\ log = <<>>

\* Entry of a frame: the guard "if attempt > max_attempts: return ...", else
\* 1) _gentle_stabilize, _wait_if_dialog_expected, _close_easy_popups (each
\* swallows the faults of the surface)
RecoverEnter_off_by_one ==
    /\ rpc = "call"
    /\ IF attempt > max_attempts + 1
       THEN /\ ret' = [recovered |-> FALSE, attempts |-> attempt - 1, result |-> NoResult]
            /\ rpc' = "returned"
            /\ UNCHANGED log
       ELSE /\ log' = log \o <<Event("stabilize", step_idx, attempt),
                               Event("dialog_wait", step_idx, attempt),
                               Event("close_popups", step_idx, attempt)>>
            /\ rpc' = "perceive"
            /\ UNCHANGED ret
    /\ UNCHANGED <<attempt, attempt0, max_attempts, previous_element, candidates,
                   ordered, idx, depth, last_result, last_failed>>
    /\ UNCHANGED <<ovars, xvars>>

RecoverEnter ==
    /\ rpc = "call"
    /\ IF attempt > max_attempts
       THEN /\ ret' = [recovered |-> FALSE, attempts |-> attempt - 1, result |-> NoResult]
            /\ rpc' = "returned"
            /\ UNCHANGED log
       ELSE /\ log' = log \o <<Event("stabilize", step_idx, attempt),
                               Event("dialog_wait", step_idx, attempt),
                               Event("close_popups", step_idx, attempt)>>
            /\ rpc' = "perceive"
            /\ UNCHANGED ret
    /\ UNCHANGED <<attempt, attempt0, max_attempts, previous_element, candidates,
                   ordered, idx, depth, last_result, last_failed>>
    /\ UNCHANGED <<ovars, xvars>>

\* RecoverPerceive scoring the snapshot already on disk instead of a new one
RecoverPerceive_stale_snapshot ==
    /\ rpc = "perceive"
    /\ candidates' = Candidates(perception_data)
    /\ ordered' = Ordered(previous_element, Candidates(perception_data))
    /\ idx' = 1
    /\ log' = Append(log, Event("locate", step_idx, attempt))
    /\ rpc' = "try"
    /\ UNCHANGED <<attempt, attempt0, max_attempts, previous_element, depth, ret,
                   last_result, last_failed>>
    /\ UNCHANGED <<ovars, xvars>>

\* 2) capture_perception overwrites the step's perception.json (or the surface
\* raises, which recover_step does not catch); 3) candidates and ordered are
\* computed from the file just written
RecoverPerceive ==
    /\ rpc = "perceive"
    /\ \/ \E snap \in Snapshots :
            /\ perception_data' = snap
            /\ candidates' = Candidates(snap)
            /\ ordered' = Ordered(previous_element, Candidates(snap))
            /\ idx' = 1
            /\ touched' = Touch(step_idx, {"ax_tree.json", "perception.json"})
            /\ log' = log \o <<Event("perceive", step_idx, attempt),
                               Event("locate", step_idx, attempt)>>
            /\ rpc' = "try"
            /\ UNCHANGED fault
       \/ /\ rpc' = "raised"
          /\ fault' = "surface"
          /\ UNCHANGED <<perception_data, touched, candidates, ordered, idx, log>>
    /\ UNCHANGED <<attempt, attempt0, max_attempts, previous_element, depth, ret,
                   last_result, last_failed>>
    /\ UNCHANGED <<probe_fault, page, plan, xvars, step_idx, pc, element, result, ok, step_json, missed>>

\* RecoverExecute reporting the position in ordered as the attempt count
RecoverExecute_loop_index ==
    /\ rpc = "try"
    /\ idx <= Len(ordered)
    /\ log' = Append(log, Event("execute", step_idx, attempt))
    /\ \/ /\ last_result' = [status |-> "success", element |-> ordered[idx]]
          /\ touched' = Touch(step_idx, {"captures"})
          /\ ret' = [recovered |-> TRUE, attempts |-> idx, result |-> last_result']
          /\ rpc' = "returned"
          /\ UNCHANGED <<idx, last_failed>>
       \/ /\ last_result' = [status |-> "fail", element |-> ordered[idx]]
          /\ touched' = Touch(step_idx, {"captures"})
          /\ last_failed' = BoxOf(ordered[idx])
          /\ idx' = idx + 1
          /\ UNCHANGED <<ret, rpc>>
       \/ /\ last_failed' = BoxOf(ordered[idx])
          /\ touched' = Touch(step_idx, {"captures"})
          /\ idx' = idx + 1
          /\ UNCHANGED <<ret, rpc, last_result>>
    /\ UNCHANGED <<attempt, attempt0, max_attempts, previous_element, candidates,
                   ordered, depth>>
    /\ UNCHANGED <<plan, xvars, step_idx, pc, perception_data, element, result, ok,
                   step_json, missed, fault, page, probe_fault>>

\* RecoverExecute without "except Exception: continue"
RecoverExecute_fault_escapes ==
    /\ rpc = "try"
    /\ idx <= Len(ordered)
    /\ log' = Append(log, Event("execute", step_idx, attempt))
    /\ \/ /\ last_result' = [status |-> "success", element |-> ordered[idx]]
          /\ touched' = Touch(step_idx, {"captures"})
          /\ ret' = [recovered |-> TRUE, attempts |-> attempt, result |-> last_result']
          /\ rpc' = "returned"
          /\ UNCHANGED <<idx, last_failed>>
       \/ /\ last_result' = [status |-> "fail", element |-> ordered[idx]]
          /\ touched' = Touch(step_idx, {"captures"})
          /\ last_failed' = BoxOf(ordered[idx])
          /\ idx' = idx + 1
          /\ UNCHANGED <<ret, rpc>>
       \/ /\ last_failed' = BoxOf(ordered[idx])
          /\ touched' = Touch(step_idx, {"captures"})
          /\ rpc' = "raised"
          /\ UNCHANGED <<ret, idx, last_result>>
    /\ UNCHANGED <<attempt, attempt0, max_attempts, previous_element, candidates,
                   ordered, depth>>
    /\ UNCHANGED <<plan, xvars, step_idx, pc, perception_data, element, result, ok,
                   step_json, missed, fault, page, probe_fault>>

\* RecoverExecute asking verify_step before it reports a recovery
RecoverExecute_verified ==
    /\ rpc = "try"
    /\ idx <= Len(ordered)
    /\ touched' = Touch(step_idx, {"captures"})
    /\ \/ \E verdict \in BOOLEAN :
            /\ last_result' = [status |-> "success", element |-> ordered[idx]]
            /\ log' = log \o <<Event("execute", step_idx, attempt),
                               Event("verify", step_idx, attempt)>>
            /\ ok' = verdict
            /\ IF verdict
               THEN /\ ret' = [recovered |-> TRUE, attempts |-> attempt,
                               result |-> last_result']
                    /\ rpc' = "returned"
                    /\ UNCHANGED <<idx, last_failed>>
               ELSE /\ last_failed' = BoxOf(ordered[idx])
                    /\ idx' = idx + 1
                    /\ UNCHANGED <<ret, rpc>>
       \/ /\ last_result' = [status |-> "fail", element |-> ordered[idx]]
          /\ log' = Append(log, Event("execute", step_idx, attempt))
          /\ last_failed' = BoxOf(ordered[idx])
          /\ idx' = idx + 1
          /\ UNCHANGED <<ret, rpc, ok>>
       \/ /\ last_failed' = BoxOf(ordered[idx])
          /\ log' = Append(log, Event("execute", step_idx, attempt))
          /\ idx' = idx + 1
          /\ UNCHANGED <<ret, rpc, last_result, ok>>
    /\ UNCHANGED <<attempt, attempt0, max_attempts, previous_element, candidates,
                   ordered, depth>>
    /\ UNCHANGED <<plan, xvars, step_idx, pc, perception_data, element, result,
                   step_json, missed, fault, page, probe_fault>>

\* One pass of "for idx, el in enumerate(ordered)": execute_action on the
\* next candidate answers success (return), answers fail (next candidate), or
\* raises (except Exception: continue)
RecoverExecute ==
    /\ rpc = "try"
    /\ idx <= Len(ordered)
    /\ log' = Append(log, Event("execute", step_idx, attempt))
    /\ \/ /\ last_result' = [status |-> "success", element |-> ordered[idx]]
          /\ touched' = Touch(step_idx, {"captures"})
          /\ ret' = [recovered |-> TRUE, attempts |-> attempt, result |-> last_result']
          /\ rpc' = "returned"
          /\ UNCHANGED <<idx, last_failed>>
       \/ /\ last_result' = [status |-> "fail", element |-> ordered[idx]]
          /\ touched' = Touch(step_idx, {"captures"})
          /\ last_failed' = BoxOf(ordered[idx])
          /\ idx' = idx + 1
          /\ UNCHANGED <<ret, rpc>>
       \/ /\ last_failed' = BoxOf(ordered[idx])
          /\ touched' = Touch(step_idx, {"captures"})
          /\ idx' = idx + 1
          /\ UNCHANGED <<ret, rpc, last_result>>
    /\ UNCHANGED <<attempt, attempt0, max_attempts, previous_element, candidates,
                   ordered, depth>>
    /\ UNCHANGED <<plan, xvars, step_idx, pc, perception_data, element, result, ok,
                   step_json, missed, fault, page, probe_fault>>

\* RecoverEscape without the key press
RecoverEscape_no_escape ==
    /\ rpc = "try"
    /\ idx > Len(ordered)
    /\ attempt' = attempt + 1
    /\ depth' = depth + 1
    /\ candidates' = <<>>
    /\ ordered' = <<>>
    /\ idx' = 0
    /\ last_result' = NoResult
    /\ rpc' = "call"
    /\ UNCHANGED <<attempt0, max_attempts, previous_element, ret, last_failed, log>>
    /\ UNCHANGED <<ovars, xvars>>

\* The for loop ended without a success: page.keyboard.press("Escape") (faults
\* swallowed), then "return await recover_step(..., previous_element=
\* previous_element, attempt=attempt + 1, ...)": a new frame with fresh locals
RecoverEscape ==
    /\ rpc = "try"
    /\ idx > Len(ordered)
    /\ log' = Append(log, Event("escape", step_idx, attempt))
    /\ attempt' = attempt + 1
    /\ depth' = depth + 1
    /\ candidates' = <<>>
    /\ ordered' = <<>>
    /\ idx' = 0
    /\ last_result' = NoResult
    /\ rpc' = "call"
    /\ UNCHANGED <<attempt0, max_attempts, previous_element, ret, last_failed>>
    /\ UNCHANGED <<ovars, xvars>>

RecNext ==
    \/ RecoverEnter
    \/ RecoverPerceive
    \/ RecoverExecute
    \/ RecoverEscape

RecSpec == RecInit /\ [][RecNext]_vars

\* recover_step is a coroutine its caller awaits; each of its waits is bounded
FairRecSpec == RecSpec /\ WF_vars(RecNext)

\* ------------------------------------------------- properties of run_plan
IsPrefix(s, t) == Len(s) <= Len(t) /\ SubSeq(t, 1, Len(s)) = s

\* the calls logged for step k, in order
StepLog(k) ==
    LET own == SelectSeq(log, LAMBDA e : e.step = k)
    IN  [i \in 1..Len(own) |-> own[i].ev]

Recorded(k) == step_json[k] # NoRecord

SkippedRecord(k) ==
    [step_id |-> k, executor_status |-> "skipped_no_element", verified |-> FALSE]

\* step k was acted on and its record shows a failed action or verification
FailedStep(k) ==
    /\ Recorded(k)
    /\ k \notin missed
    /\ (step_json[k].executor_status # "success" \/ ~step_json[k].verified)

\* C1: every step whose resolution found an element and whose executor status
\* is not success or whose verification is false has had recover_step invoked
\* for it by the time its record is persisted.
C1_RecoveryInvokedOnFailure ==
    \A k \in 1..MaxPlan : FailedStep(k) => Count("recover", k) >= 1

\* C7: a step whose resolution found no element never reaches the executor,
\* the verification router or recovery; the record written for it is the
\* skipped record with verified false; once the record is written run_plan is
\* back at the loop head, and it leaves the loop only after the last step.
C7_SkippedStep ==
    \A k \in missed :
        /\ Count("execute", k) = 0
        /\ Count("verify", k) = 0
        /\ Count("recover", k) = 0
        /\ Recorded(k) => step_json[k] = SkippedRecord(k)
        /\ (k = step_idx /\ pc \notin {"persist_skip", "raised"}) =>
               /\ Recorded(k)
               /\ pc \in {"loop", "close", "done"}
               /\ pc \in {"close", "done"} => k = Len(plan)
        /\ k < step_idx => Recorded(k)

C7_Witness ==
    /\ 1 \in missed
    /\ step_json[1] = SkippedRecord(1)
    /\ step_idx = 2
    /\ Count("perceive", 2) = 1

\* C8: whatever the outcomes of the steps (resolution miss, executor fail,
\* verification false), the run reaches its end and ends normally only with
\* every step of the plan perceived, resolved and recorded; after a failed
\* step k the step k+1 is perceived, resolved and recorded, unless the
\* surface or the record write raises.
C8_EveryStepProcessed ==
    /\ [](pc = "done" =>
            \A k \in 1..Len(plan) :
                /\ Count("perceive", k) = 1
                /\ Count("locate", k) = 1
                /\ Recorded(k))
    /\ \A k \in 1..MaxPlan :
           ((k < Len(plan) /\ (FailedStep(k) \/ (k \in missed /\ Recorded(k))))
               ~> (\/ /\ Count("perceive", k + 1) = 1
                      /\ Count("locate", k + 1) = 1
                      /\ Recorded(k + 1)
                   \/ pc = "raised"))
    /\ <>(pc \in {"done", "raised"})

C8_Witness ==
    /\ pc = "done"
    /\ Len(plan) = 2
    /\ step_json[1].executor_status = "fail"
    /\ ~step_json[1].verified
    /\ Recorded(2)

FullOrder == <<"perceive", "locate", "execute", "verify", "persist", "sleep">>
SkipOrder == <<"perceive", "locate", "persist">>

\* C9: the calls of the run are grouped by step in plan order; within a step
\* they are perception, resolution, executor, verification, persistence in
\* that order; step k's directory holds a record exactly when step k's one
\* write has happened, that record has step_id = k, and it is there when the
\* perception of step k+1 begins.
C9_SequentialSteps ==
    /\ \A i, j \in 1..Len(log) : i < j => log[i].step <= log[j].step
    /\ \A k \in 1..MaxPlan :
           /\ IsPrefix(StepLog(k), FullOrder) \/ IsPrefix(StepLog(k), SkipOrder)
           /\ Count("persist", k) <= 1
           /\ Recorded(k) <=> Count("persist", k) = 1
           /\ Recorded(k) => step_json[k].step_id = k
           /\ (k > 1 /\ (Count("perceive", k) > 0 \/ (step_idx = k /\ pc = "perceive")))
                  => Count("persist", k - 1) = 1

C9_Witness ==
    /\ StepLog(1) = FullOrder
    /\ Count("perceive", 2) = 1
    /\ step_json[1].step_id = 1

\* C10: a fault raised while writing a step record does not end the run.
C10_WriteFaultNotFatal ==
    fault = "write" => pc # "raised"

\* C11: when the perception of step k+1 begins, a settling pause has been
\* made after step k, whatever step k's outcome (a skipped step included).
C11_PauseBetweenSteps ==
    \A k \in 2..MaxPlan :
        (Count("perceive", k) > 0 \/ (step_idx = k /\ pc = "perceive"))
            => Count("sleep", k - 1) = 1

\* --------------------------------------------- properties of recover_step
Exhausted(n) == [recovered |-> FALSE, attempts |-> n, result |-> NoResult]

\* C2: started at attempt = 1, recover_step re-runs perception at most
\* max_attempts times and never has more than max_attempts + 1 frames; a
\* returned value is a verdict with recovered true or false; and, whatever
\* the snapshots and the executor outcomes, the call comes to its end.
C2_RecoveryBounded ==
    /\ [](attempt0 = 1 =>
            /\ CountEv("perceive") <= max_attempts
            /\ depth <= max_attempts + 1)
    /\ [](rpc = "returned" =>
            /\ ret # NoReturn
            /\ ret.recovered \in BOOLEAN
            /\ ret.attempts >= 0)
    /\ [](rpc = "raised" => fault = "surface")
    /\ <>(rpc \in {"returned", "raised"})

C2_Witness ==
    /\ rpc = "returned"
    /\ attempt0 = 1
    /\ max_attempts = 2
    /\ CountEv("perceive") = 2
    /\ depth = 3
    /\ ~ret.recovered

\* C3: called with attempt > max_attempts, recover_step returns without any
\* call on the surface, perception or executor, with recovered false, no
\* result and attempts_used = max_attempts.
C3_ImmediateExhausted ==
    (rpc = "returned" /\ attempt0 > max_attempts) =>
        /\ log = <<>>
        /\ ret = Exhausted(max_attempts)

\* C4: the first candidate handed to the executor in an attempt does not have
\* the bounding box of the choice that failed immediately before, whenever
\* the attempt's top-K candidates contain one with a different bounding box.
C4_FirstChoiceAvoidsLastFailed ==
    (/\ rpc = "try"
     /\ idx = 1
     /\ ordered # <<>>
     /\ last_failed # NoBox
     /\ \E i \in 1..Len(candidates) : BoxOf(candidates[i]) # last_failed)
        => BoxOf(ordered[1]) # last_failed

\* C5: an executor success in attempt n ends recover_step at once with
\* recovered true, attempts_used = n (1 <= n <= max_attempts) and the
\* executor's successful answer as result; recovered true is returned in no
\* other way.
C5_SuccessReturned ==
    LET succeeded == last_result.status = "success"
    IN  /\ succeeded =>
            /\ rpc = "returned"
            /\ log[Len(log)].ev = "execute"
            /\ ret = [recovered |-> TRUE,
                      attempts |-> log[Len(log)].attempt,
                      result |-> last_result]
            /\ ret.attempts \in 1..max_attempts
            /\ ret.attempts = attempt0 + CountEv("escape")
            /\ last_result.element = ordered[idx]
        /\ (rpc = "returned" /\ ret.recovered) => succeeded

C5_Witness ==
    /\ rpc = "returned"
    /\ ret.recovered
    /\ ret.attempts = 1
    /\ attempt0 = 1
    /\ CountA("execute", 1) = 2
    /\ idx = 2

\* C6: an attempt whose candidates all failed (or that had none) issues
\* exactly one Escape and is followed by the entry of attempt n+1, which is
\* Attempting(n+1) if n < max_attempts and Exhausted otherwise; an attempt
\* that has not failed issues none, so none follows a success; when all
\* attempts fail the verdict is recovered false, attempts_used = max_attempts
\* and no result.
C6_EscapeAndExhaustion ==
    /\ \A n \in 1..MaxAttempts :
           CountA("escape", n) =
               IF attempt0 <= n /\ n < attempt /\ n <= max_attempts THEN 1 ELSE 0
    /\ \A i \in 1..Len(log) :
           log[i].ev = "escape" =>
               /\ i > 1
               /\ log[i - 1].attempt = log[i].attempt
               /\ log[i - 1].ev \in {"locate", "execute"}
               /\ i < Len(log) =>
                      /\ log[i + 1].ev = "stabilize"
                      /\ log[i + 1].attempt = log[i].attempt + 1
                      /\ log[i].attempt < max_attempts
    /\ last_result.status = "success" => log[Len(log)].ev = "execute"
    /\ rpc \in {"perceive", "try"} => attempt <= max_attempts
    /\ (rpc = "returned" /\ ~ret.recovered /\ attempt0 <= max_attempts) =>
           /\ ret = Exhausted(max_attempts)
           /\ log[Len(log)] = Event("escape", step_idx, max_attempts)
           /\ \A n \in attempt0..max_attempts :
                  CountA("escape", n) = 1 /\ CountA("perceive", n) = 1

C6_Witness ==
    /\ rpc = "returned"
    /\ ret = Exhausted(2)
    /\ attempt0 = 1
    /\ max_attempts = 2
    /\ CountA("execute", 1) >= 1
    /\ CountA("execute", 2) = 0
    /\ CountEv("escape") = 2

\* ------------------------------------------------------------------ strings
\* A Python str is the sequence of its characters; the operators below do
\* what str.lower, str.strip, "in" and the regular expressions do.
MaxQuoted == 200    \* {1,200}: longest content of a quoted literal

\* the letters str.lower changes
LowerMap ==
    ("A" :> "a") @@ ("B" :> "b") @@ ("C" :> "c") @@ ("D" :> "d") @@ ("E" :> "e") @@
    ("F" :> "f") @@ ("G" :> "g") @@ ("H" :> "h") @@ ("I" :> "i") @@ ("J" :> "j") @@
    ("K" :> "k") @@ ("L" :> "l") @@ ("M" :> "m") @@ ("N" :> "n") @@ ("O" :> "o") @@
    ("P" :> "p") @@ ("Q" :> "q") @@ ("R" :> "r") @@ ("S" :> "s") @@ ("T" :> "t") @@
    ("U" :> "u") @@ ("V" :> "v") @@ ("W" :> "w") @@ ("X" :> "x") @@ ("Y" :> "y") @@
    ("Z" :> "z")
Whitespace == {" "}

SetMin(S) == CHOOSE x \in S : \A y \in S : x <= y
SetMax(S) == CHOOSE x \in S : \A y \in S : x >= y

LowerChar(c) == IF c \in DOMAIN LowerMap THEN LowerMap[c] ELSE c

\* s.lower()
RECURSIVE Lower(_)
Lower(s) == IF s = <<>> THEN <<>> ELSE <<LowerChar(Head(s))>> \o Lower(Tail(s))

\* s.strip()
Strip(s) ==
    LET inked == {i \in 1..Len(s) : s[i] \notin Whitespace}
    IN  IF inked = {} THEN <<>> ELSE SubSeq(s, SetMin(inked), SetMax(inked))

\* sub in s
Contains(s, sub) ==
    \E i \in 0..(Len(s) - Len(sub)) : SubSeq(s, i + 1, i + Len(sub)) = sub

\* any(k in s for k in keywords)
AnyIn(keywords, s) == \E k \in keywords : Contains(s, k)

\* [(m.group(1) or m.group(2)).strip() for m in _QUOTED.finditer(s)], the
\* matches of '([^']{1,200})'|"([^"]{1,200})" from position i on: a quote
\* opens a literal when the next quote of its kind closes a content of 1 to
\* 200 characters; the scan resumes after the closing quote.
RECURSIVE QuotedFrom(_, _)
QuotedFrom(s, i) ==
    IF i > Len(s) THEN <<>>
    ELSE IF s[i] \in {"'", "\""}
         THEN LET closers == {j \in (i + 1)..Len(s) : s[j] = s[i]}
              IN  IF closers = {} THEN QuotedFrom(s, i + 1)
                  ELSE LET j == SetMin(closers)
                       IN  IF j = i + 1 \/ j - i - 1 > MaxQuoted
                           THEN QuotedFrom(s, i + 1)
                           ELSE <<Strip(SubSeq(s, i + 1, j - 1))>> \o QuotedFrom(s, j + 1)
         ELSE QuotedFrom(s, i + 1)

extract_all_quoted(s) == QuotedFrom(s, 1)

\* ----------------------------------------------------------------- verifier
\* the keyword lists of verify_step
DialogWords == {<<"d", "i", "a", "l", "o", "g">>,
               <<"m", "o", "d", "a", "l">>,
               <<"p", "r", "o", "m", "p", "t">>}
UrlWords == {<<"u", "r", "l">>,
            <<"l", "o", "c", "a", "t", "i", "o", "n">>,
            <<"p", "a", "t", "h">>,
            <<"n", "a", "v", "i", "g", "a", "t", "e">>,
            <<"n", "a", "v", "i", "g", "a", "t", "e", "d">>}
FieldWords == {<<"f", "i", "e", "l", "d">>,
              <<"i", "n", "p", "u", "t">>,
              <<"t", "e", "x", "t", "b", "o", "x">>,
              <<"e", "d", "i", "t", "o", "r">>}
ValueWords == {<<"c", "o", "n", "t", "a", "i", "n", "s">>,
              <<"s", "e", "t", " ", "t", "o">>,
              <<"v", "a", "l", "u", "e">>,
              <<"f", "i", "l", "l", "e", "d">>}
\* button, link, menuitem, tab, in the order the role is chosen
RoleWords == <<<<"b", "u", "t", "t", "o", "n">>,
             <<"l", "i", "n", "k">>,
             <<"m", "e", "n", "u", "i", "t", "e", "m">>,
             <<"t", "a", "b">>>>
RoleNames == <<"button", "link", "menuitem", "tab">>
VisibleWords == {<<"v", "i", "s", "i", "b", "l", "e">>,
                <<"a", "p", "p", "e", "a", "r", "s">>,
                <<"s", "h", "o", "w", "n">>,
                <<"d", "i", "s", "p", "l", "a", "y", "e", "d">>,
                <<"l", "i", "s", "t", "e", "d">>,
                <<"p", "r", "e", "s", "e", "n", "t">>}

\* The probes verify_step can make of the surface, each a Playwright call.
Probes == {"wait_dialog", "dialog_count", "dialog_text", "url",
           "textbox_role", "textbox_css", "textbox_editable",
           "input_value", "inner_text", "role_count", "role_wait",
           "text_exact", "text_exact_wait", "text_contains", "text_contains_wait"}

\* what a check hands back: its verdict, or raised when a fault escapes it,
\* and the probes it made, in order
Answer(v, probes) == [v |-> v, raised |-> FALSE, probes |-> probes]
Raised(probes) == [v |-> FALSE, raised |-> TRUE, probes |-> probes]

\* _dialog(page): the first dialog-role element, or none; a fault of
\* dlg.count() escapes it.
dialog(pg, f) ==
    IF f = "dialog_count" THEN [raised |-> TRUE, dlgs |-> <<>>]
    ELSE [raised |-> FALSE,
          dlgs |-> IF pg.dialogs = <<>> THEN <<>> ELSE <<Head(pg.dialogs)>>]

\* _first_textbox(scope) over the textbox-like elements of the scope, in
\* document order: by role, then input[type='text']/textarea, then
\* [contenteditable='true']; a faulting strategy is passed over.
first_textbox(boxes, f) ==
    LET inputs == SelectSeq(boxes, LAMBDA b : b.kind = "input")
        editables == SelectSeq(boxes, LAMBDA b : b.kind = "editable")
    IN  IF f # "textbox_role" /\ boxes # <<>>
        THEN [tbs |-> <<Head(boxes)>>, probes |-> <<"textbox_role">>]
        ELSE IF f # "textbox_css" /\ inputs # <<>>
        THEN [tbs |-> <<Head(inputs)>>, probes |-> <<"textbox_role", "textbox_css">>]
        ELSE IF f # "textbox_editable" /\ editables # <<>>
        THEN [tbs |-> <<Head(editables)>>,
              probes |-> <<"textbox_role", "textbox_css", "textbox_editable">>]
        ELSE [tbs |-> <<>>,
              probes |-> <<"textbox_role", "textbox_css", "textbox_editable">>]

\* verify_dialog_open comparing the texts as they are
verify_dialog_open_case_sensitive(pg, must_contain, f) ==
    IF f = "wait_dialog" \/ pg.dialogs = <<>>
    THEN Answer(FALSE, <<"wait_dialog">>)
    ELSE IF must_contain = <<>>
    THEN Answer(TRUE, <<"wait_dialog">>)
    ELSE LET d == dialog(pg, f)
         IN  IF d.raised \/ d.dlgs = <<>>
             THEN Answer(FALSE, <<"wait_dialog", "dialog_count">>)
             ELSE IF f = "dialog_text"
             THEN Answer(FALSE, <<"wait_dialog", "dialog_count", "dialog_text">>)
             ELSE Answer(Contains(d.dlgs[1].text, must_contain),
                         <<"wait_dialog", "dialog_count", "dialog_text">>)

\* verify_dialog_open(page, must_contain); must_contain = <<>> stands for both
\* None and the empty string ("if not must_contain").
verify_dialog_open(pg, must_contain, f) ==
    IF f = "wait_dialog" \/ pg.dialogs = <<>>
    THEN Answer(FALSE, <<"wait_dialog">>)
    ELSE IF must_contain = <<>>
    THEN Answer(TRUE, <<"wait_dialog">>)
    ELSE LET d == dialog(pg, f)
         IN  IF d.raised \/ d.dlgs = <<>>
             THEN Answer(FALSE, <<"wait_dialog", "dialog_count">>)
             ELSE IF f = "dialog_text"
             THEN Answer(FALSE, <<"wait_dialog", "dialog_count", "dialog_text">>)
             ELSE Answer(Contains(Lower(d.dlgs[1].text), Lower(must_contain)),
                         <<"wait_dialog", "dialog_count", "dialog_text">>)

\* verify_text_visible(page, text): get_by_text(text, exact=True) matches a
\* text equal to the literal, get_by_text(text) one that contains it whatever
\* the case; each is followed by the wait for the first match to be visible.
verify_text_visible(pg, text, f) ==
    LET exact == \E t \in pg.texts : t = text
        loose == \E t \in pg.texts : Contains(Lower(t), Lower(text))
        first == IF f = "text_exact" \/ ~exact THEN <<"text_exact">>
                 ELSE <<"text_exact", "text_exact_wait">>
        second == IF f = "text_contains" \/ ~loose THEN <<"text_contains">>
                  ELSE <<"text_contains", "text_contains_wait">>
    IN  IF f # "text_exact" /\ exact /\ f # "text_exact_wait"
        THEN Answer(TRUE, first)
        ELSE IF f # "text_contains" /\ loose /\ f # "text_contains_wait"
        THEN Answer(TRUE, first \o second)
        ELSE Answer(FALSE, first \o second)

\* verify_textbox_value(page, expected)
verify_textbox_value(pg, expected, f) ==
    LET d == dialog(pg, f)
        scope == IF d.dlgs # <<>> THEN d.dlgs[1].textboxes ELSE pg.textboxes
        t == first_textbox(scope, f)
        tb == t.tbs[1]
        found == <<"dialog_count">> \o t.probes
    IN  IF d.raised THEN Raised(<<"dialog_count">>)
        ELSE IF t.tbs = <<>> THEN Answer(FALSE, found)
        ELSE IF f # "input_value" /\ tb.kind = "input" /\ tb.value # <<>>
                /\ Contains(Lower(tb.value), Lower(expected))
        THEN Answer(TRUE, found \o <<"input_value">>)
        ELSE IF f # "inner_text" /\ Strip(tb.text) # <<>>
                /\ Contains(Lower(Strip(tb.text)), Lower(expected))
        THEN Answer(TRUE, found \o <<"input_value", "inner_text">>)
        ELSE Answer(FALSE, found \o <<"input_value", "inner_text">>)

\* verify_element_exists(page, role, name): get_by_role(role, name=name)
\* matches an element of that role whose accessible name contains name,
\* whatever the case.
verify_element_exists(pg, role, name, f) ==
    LET hit == \E c \in pg.controls :
                   c.role = role /\ (name = <<>> \/ Contains(Lower(c.name), Lower(name)))
    IN  IF f = "role_count" \/ ~hit THEN Answer(FALSE, <<"role_count">>)
        ELSE Answer(f # "role_wait", <<"role_count", "role_wait">>)

\* verify_url_contains comparing the texts as they are
verify_url_contains_case_sensitive(pg, fragment, f) ==
    IF f = "url" THEN Answer(FALSE, <<"url">>)
    ELSE Answer(Contains(pg.url, fragment), <<"url">>)

\* verify_url_contains(page, fragment)
verify_url_contains(pg, fragment, f) ==
    IF f = "url" THEN Answer(FALSE, <<"url">>)
    ELSE Answer(Contains(Lower(pg.url), Lower(fragment)), <<"url">>)

\* any_literal_visible looking for the first literal only
any_literal_visible_first_only(pg, quoted, f) ==
    IF quoted = <<>> THEN Answer(FALSE, <<>>)
    ELSE verify_text_visible(pg, Head(quoted), f)

\* for q in quoted: if await verify_text_visible(page, q): return True
RECURSIVE any_literal_visible(_, _, _)
any_literal_visible(pg, quoted, f) ==
    IF quoted = <<>> THEN Answer(FALSE, <<>>)
    ELSE LET a == verify_text_visible(pg, Head(quoted), f)
             rest == any_literal_visible(pg, Tail(quoted), f)
         IN  IF a.v THEN a ELSE Answer(rest.v, a.probes \o rest.probes)

\* the textbox-like elements of the whole page, in document order
RECURSIVE DialogTextboxes(_)
DialogTextboxes(dlgs) ==
    IF dlgs = <<>> THEN <<>> ELSE Head(dlgs).textboxes \o DialogTextboxes(Tail(dlgs))
PageTextboxes(pg) == pg.textboxes \o DialogTextboxes(pg.dialogs)

\* Rule with the role+name rule tried before the dialog rule
Rule_role_first(intent, expected_state) ==
    LET es == Strip(expected_state)
        el == Lower(es)
        fromOutcome == extract_all_quoted(es)
        quoted == IF fromOutcome # <<>> THEN fromOutcome ELSE extract_all_quoted(intent)
    IN  IF (\E i \in 1..Len(RoleWords) : Contains(el, RoleWords[i])) /\ quoted # <<>> THEN 4
        ELSE IF AnyIn(DialogWords, el) THEN 1
        ELSE IF AnyIn(UrlWords, el) /\ quoted # <<>> THEN 2
        ELSE IF AnyIn(FieldWords, el) /\ AnyIn(ValueWords, el) THEN 3
        ELSE IF (\E i \in 1..Len(RoleWords) : Contains(el, RoleWords[i])) /\ quoted # <<>> THEN 4
        ELSE IF AnyIn(VisibleWords, el) /\ quoted # <<>> THEN 5
        ELSE IF quoted # <<>> THEN 6
        ELSE 7

\* Rule with the any-literal rule as the last resort
Rule_no_default(intent, expected_state) ==
    LET es == Strip(expected_state)
        el == Lower(es)
        fromOutcome == extract_all_quoted(es)
        quoted == IF fromOutcome # <<>> THEN fromOutcome ELSE extract_all_quoted(intent)
    IN  IF AnyIn(DialogWords, el) THEN 1
        ELSE IF AnyIn(UrlWords, el) /\ quoted # <<>> THEN 2
        ELSE IF AnyIn(FieldWords, el) /\ AnyIn(ValueWords, el) THEN 3
        ELSE IF (\E i \in 1..Len(RoleWords) : Contains(el, RoleWords[i])) /\ quoted # <<>> THEN 4
        ELSE IF AnyIn(VisibleWords, el) /\ quoted # <<>> THEN 5
        ELSE 6

\* which of the seven rules of verify_step decides
Rule(intent, expected_state) ==
    LET es == Strip(expected_state)
        el == Lower(es)
        fromOutcome == extract_all_quoted(es)
        quoted == IF fromOutcome # <<>> THEN fromOutcome ELSE extract_all_quoted(intent)
    IN  IF AnyIn(DialogWords, el) THEN 1
        ELSE IF AnyIn(UrlWords, el) /\ quoted # <<>> THEN 2
        ELSE IF AnyIn(FieldWords, el) /\ AnyIn(ValueWords, el) THEN 3
        ELSE IF (\E i \in 1..Len(RoleWords) : Contains(el, RoleWords[i])) /\ quoted # <<>> THEN 4
        ELSE IF AnyIn(VisibleWords, el) /\ quoted # <<>> THEN 5
        ELSE IF quoted # <<>> THEN 6
        ELSE 7

\* verify_step choosing the last role keyword of the list that occurs
verify_step_last_role(pg, intent, expected_state, f) ==
    LET es == Strip(expected_state)
        el == Lower(es)
        fromOutcome == extract_all_quoted(es)
        quoted == IF fromOutcome # <<>> THEN fromOutcome ELSE extract_all_quoted(intent)
        first == IF quoted # <<>> THEN quoted[1] ELSE <<>>
        rule == Rule(intent, expected_state)
        role == RoleNames[SetMax({i \in 1..Len(RoleWords) : Contains(el, RoleWords[i])})]
        anybox == first_textbox(PageTextboxes(pg), f)
    IN  CASE rule = 1 -> verify_dialog_open(pg, first, f)
          [] rule = 2 -> verify_url_contains(pg, first, f)
          [] rule = 3 -> IF first # <<>> THEN verify_textbox_value(pg, first, f)
                         ELSE Answer(anybox.tbs # <<>>, anybox.probes)
          [] rule = 4 -> verify_element_exists(pg, role, first, f)
          [] rule = 5 -> verify_text_visible(pg, first, f)
          [] rule = 6 -> any_literal_visible(pg, quoted, f)
          [] OTHER -> Answer(TRUE, <<>>)

\* verify_step(page, intent, expected_state) when probe f faults ("none": no
\* probe faults)
verify_step(pg, intent, expected_state, f) ==
    LET es == Strip(expected_state)
        el == Lower(es)
        fromOutcome == extract_all_quoted(es)
        quoted == IF fromOutcome # <<>> THEN fromOutcome ELSE extract_all_quoted(intent)
        first == IF quoted # <<>> THEN quoted[1] ELSE <<>>
        rule == Rule(intent, expected_state)
        role == RoleNames[SetMin({i \in 1..Len(RoleWords) : Contains(el, RoleWords[i])})]
        anybox == first_textbox(PageTextboxes(pg), f)
    IN  CASE rule = 1 -> verify_dialog_open(pg, first, f)
          [] rule = 2 -> verify_url_contains(pg, first, f)
          [] rule = 3 -> IF first # <<>> THEN verify_textbox_value(pg, first, f)
                         ELSE Answer(anybox.tbs # <<>>, anybox.probes)
          [] rule = 4 -> verify_element_exists(pg, role, first, f)
          [] rule = 5 -> verify_text_visible(pg, first, f)
          [] rule = 6 -> any_literal_visible(pg, quoted, f)
          [] OTHER -> Answer(TRUE, <<>>)

\* ------------------------------------------------- verifier: value domains
MaxDialogs == 2     \* most dialogs open at once

\* intents and expected outcomes of a step, each with the rules it meets
VerIntents == {<<"C", "l", "i", "c", "k", " ", "'", "S", "a", "v", "e", "'">>,
               <<"O", "p", "e", "n", " ", "s", "e", "t", "t", "i", "n", "g", "s">>}
Outcomes == {
    <<"d", "i", "a", "l", "o", "g">>,
    <<"M", "o", "d", "a", "l", " ", "'", "N", "e", "w", " ", "P", "r", "o", "j", "e", "c", "t", "'">>,
    <<"d", "i", "a", "l", "o", "g", " ", "b", "u", "t", "t", "o", "n", " ", "'", "S", "a", "v", "e", "'">>,
    <<"d", "i", "a", "l", "o", "g", " ", "f", "i", "e", "l", "d", " ", "v", "a", "l", "u", "e", " ", "'", "N", "e", "w", " ", "P", "r", "o", "j", "e", "c", "t", "'">>,
    <<"p", "r", "o", "m", "p", "t", " ", "'", " ", "'">>,
    <<"b", "u", "t", "t", "o", "n", " ", "'", "S", "a", "v", "e", "'">>,
    <<"t", "a", "b", "l", "e", " ", "'", "S", "a", "v", "e", "'">>,
    <<"u", "r", "l", " ", "'", "p", "r", "o", "j", "'">>,
    <<"u", "r", "l">>,
    <<"f", "i", "e", "l", "d", " ", "v", "a", "l", "u", "e", " ", "'", "N", "e", "w", " ", "P", "r", "o", "j", "e", "c", "t", "'">>,
    <<"f", "i", "e", "l", "d", " ", "f", "i", "l", "l", "e", "d">>,
    <<"'", "S", "a", "v", "e", "'", " ", "v", "i", "s", "i", "b", "l", "e">>,
    <<"d", "o", "n", "e">>,
    <<"'", "O", "l", "d", "'", " ", "'", "S", "a", "v", "e", "'">>,
    <<" ", "D", "i", "a", "l", "o", "g", " ">>,
    <<"p", "a", "t", "h", " ", "f", "i", "e", "l", "d", " ", "f", "i", "l", "l", "e", "d">>,
    <<"t", "a", "b", " ", "b", "u", "t", "t", "o", "n", " ", "'", "S", "a", "v", "e", "'", " ", "'", "O", "l", "d", "'">>,
    <<"l", "i", "n", "k">>,
    <<"'", "S", "a", "v", "e", "'", " ", "'", "O", "l", "d", "'">>}

InputBox == [kind |-> "input", value |-> <<"N", "e", "w", " ", "P", "r", "o", "j", "e", "c", "t">>, text |-> <<>>]
EditableBox == [kind |-> "editable", value |-> <<>>,
                text |-> <<" ", "n", "e", "w", " ", "p", "r", "o", "j", "e", "c", "t", " ">>]
DialogSet == {[text |-> <<"C", "r", "e", "a", "t", "e", " ", "n", "e", "w", " ", "p", "r", "o", "j", "e", "c", "t">>, textboxes |-> <<>>],
              [text |-> <<"N", "e", "w", " ", "D", "o", "c", "u", "m", "e", "n", "t">>, textboxes |-> <<InputBox>>]}
Urls == {<<"a", "p", "p", "/", "P", "r", "o", "j", "e", "c", "t", "s">>, <<"a", "p", "p", "/", "h", "o", "m", "e">>}
TextSets == {{}, {<<"S", "a", "v", "e">>}, {<<"s", "a", "v", "e", " ", "a", "l", "l">>}}
ControlSets == {{}, {[role |-> "button", name |-> <<"S", "a", "v", "e">>]},
                {[role |-> "tab", name |-> <<"S", "a", "v", "e">>]}}
\* surfaces with dialogs and textboxes, and surfaces with none of them that
\* differ in location, visible texts and controls
Pages ==
    [dialogs : SeqsUpTo(DialogSet, MaxDialogs),
     textboxes : {<<>>, <<InputBox>>, <<EditableBox>>},
     url : Urls, texts : {{}}, controls : {{}}]
    \cup [dialogs : {<<>>}, textboxes : {<<>>},
          url : Urls, texts : TextSets, controls : ControlSets]

\* ------------------------------------------------------ verifier: one call
\* One call of verify_step(page, step["intent"], step["expected_state"]), as
\* run_plan makes it, on any surface.
VerInit ==
    /\ plan \in {<<[intent |-> i, expected_state |-> e]>> : i \in VerIntents, e \in Outcomes}
    /\ step_idx = 1
    /\ pc = "verify"
    /\ page \in Pages
    /\ probe_fault = "none"
    /\ perception_data = <<>>
    /\ element = None
    /\ result = NoResult
    /\ ok = FALSE
    /\ step_json = [d \in 1..MaxPlan |-> NoRecord]
    /\ touched = Untouched
    /\ plan_files = {}
    /\ call = NoCall
    /\ runs = <<>>
    /\ missed = {}
    /\ fault = "none"
    /\ rpc = "idle"
    /\ attempt = 0
    /\ attempt0 = 0
    /\ max_attempts = DefaultMaxAttempts
    /\ previous_element = None
    /\ candidates = <<>>
    /\ ordered = <<>>
    /\ idx = 0
    /\ depth = 0
    /\ ret = NoReturn
    /\ last_result = NoResult
    /\ last_failed = NoBox
    /\ log = <<>>

\* ok = await verify_step(...): the verdict is returned, or the fault that
\* escapes verify_step ends run_plan
VerifyStep ==
    /\ pc = "verify"
    /\ \E f \in Probes \cup {"none"} :
         LET a == verify_step(page, plan[1].intent, plan[1].expected_state, f)
         IN  /\ log' = [i \in 1..Len(a.probes) |-> Event(a.probes[i], 1, 0)]
             /\ probe_fault' = IF \E i \in 1..Len(a.probes) : a.probes[i] = f
                               THEN f ELSE "none"
             /\ IF a.raised
                THEN /\ pc' = "raised"
                     /\ fault' = "surface"
                     /\ UNCHANGED ok
                ELSE /\ pc' = "verified"
                     /\ ok' = a.v
                     /\ UNCHANGED fault
    /\ UNCHANGED <<page, plan, xvars, step_idx, perception_data, element, result,
                   step_json, touched, missed>>
    /\ UNCHANGED rvars

VerNext == VerifyStep
VerSpec == VerInit /\ [][VerNext]_vars

\* ------------------------------------------------ properties of verify_step
Returned == pc = "verified"
Outcome == Lower(Strip(plan[1].expected_state))
\* the quoted literals of the outcome, or of the intent when it has none
Literals ==
    IF extract_all_quoted(Strip(plan[1].expected_state)) # <<>>
    THEN extract_all_quoted(Strip(plan[1].expected_state))
    ELSE extract_all_quoted(plan[1].intent)
DialogOutcome == AnyIn(DialogWords, Outcome)
LaterOutcome ==
    \/ AnyIn(UrlWords, Outcome)
    \/ AnyIn(FieldWords, Outcome) /\ AnyIn(ValueWords, Outcome)
    \/ \E i \in 1..Len(RoleWords) : Contains(Outcome, RoleWords[i])
    \/ AnyIn(VisibleWords, Outcome)
DialogProbes == {"wait_dialog", "dialog_count", "dialog_text"}
ProbesMade == {log[i].ev : i \in 1..Len(log)}

C14_NeverRaises ==
    (pc # "verify") => (Returned /\ (probe_fault = "dialog_count" => ~ok))

Synonyms == <<
    <<<<"p", "r", "e", "s", "s">>, <<"c", "l", "i", "c", "k">>>>,
    <<<<"t", "a", "p">>, <<"c", "l", "i", "c", "k">>>>,
    <<<<"s", "e", "l", "e", "c", "t">>, <<"c", "l", "i", "c", "k">>>>,
    <<<<"c", "h", "o", "o", "s", "e">>, <<"c", "l", "i", "c", "k">>>>,
    <<<<"n", "a", "v", "i", "g", "a", "t", "e">>, <<"o", "p", "e", "n">>>>,
    <<<<"g", "o", " ", "t", "o">>, <<"o", "p", "e", "n">>>>,
    <<<<"n", "e", "w">>, <<"c", "r", "e", "a", "t", "e">>>>,
    <<<<"a", "d", "d">>, <<"c", "r", "e", "a", "t", "e">>>>,
    <<<<"+">>, <<"c", "r", "e", "a", "t", "e">>>>,
    <<<<"r", "e", "m", "o", "v", "e">>, <<"d", "e", "l", "e", "t", "e">>>>,
    <<<<"t", "r", "a", "s", "h">>, <<"d", "e", "l", "e", "t", "e">>>>,
    <<<<"d", "i", "s", "c", "a", "r", "d">>, <<"d", "e", "l", "e", "t", "e">>>>,
    <<<<"p", "r", "e", "f", "e", "r", "e", "n", "c", "e", "s">>, <<"s", "e", "t", "t", "i", "n", "g", "s">>>>,
    <<<<"o", "p", "t", "i", "o", "n", "s">>, <<"s", "e", "t", "t", "i", "n", "g", "s">>>>,
    <<<<"t", "i", "t", "l", "e">>, <<"n", "a", "m", "e">>>>,
    <<<<"p", "r", "o", "j", "e", "c", "t", "s">>, <<"p", "r", "o", "j", "e", "c", "t">>>>>>

STOPWORDS == {<<"t", "h", "e">>,
             <<"a">>,
             <<"a", "n">>,
             <<"t", "o">>,
             <<"o", "n">>,
             <<"i", "n">>,
             <<"o", "f">>,
             <<"f", "o", "r">>,
             <<"w", "i", "t", "h">>,
             <<"a", "n", "d">>,
             <<"o", "r">>,
             <<"b", "y">>,
             <<"i", "s">>,
             <<"b", "e">>,
             <<"b", "u", "t", "t", "o", "n">>,
             <<"o", "p", "t", "i", "o", "n">>,
             <<"m", "e", "n", "u">>,
             <<"i", "t", "e", "m">>,
             <<"p", "a", "g", "e">>,
             <<"v", "i", "e", "w">>,
             <<"p", "r", "o", "m", "p", "t">>,
             <<"d", "i", "a", "l", "o", "g">>,
             <<"m", "o", "d", "a", "l">>}

Digits == {"0", "1", "2", "3", "4", "5", "6", "7", "8", "9"}
LowerLetters == {LowerMap[c] : c \in DOMAIN LowerMap}
\* \w of a regular expression, and the characters of [a-z0-9+]
WordChars == LowerLetters \cup DOMAIN LowerMap \cup Digits \cup {"_"}
TokenChars == LowerLetters \cup Digits \cup {"+"}

\* \b at position p of s: one of s[p-1], s[p] is a word character and the
\* other is not (or is beyond the string)
IsWordAt(s, p) == p >= 1 /\ p <= Len(s) /\ s[p] \in WordChars
Boundary(s, p) == IsWordAt(s, p - 1) # IsWordAt(s, p)

\* re.sub(rf"\b{re.escape(w)}\b", base, s) from position i on
RECURSIVE SubFrom(_, _, _, _)
SubFrom(s, w, base, i) ==
    IF i > Len(s) THEN <<>>
    ELSE IF /\ i + Len(w) - 1 <= Len(s)
            /\ SubSeq(s, i, i + Len(w) - 1) = w
            /\ Boundary(s, i)
            /\ Boundary(s, i + Len(w))
         THEN base \o SubFrom(s, w, base, i + Len(w))
         ELSE <<s[i]>> \o SubFrom(s, w, base, i + 1)

RECURSIVE ApplySynonyms(_, _)
ApplySynonyms(s, n) ==
    IF n > Len(Synonyms) THEN s
    ELSE ApplySynonyms(SubFrom(s, Synonyms[n][1], Synonyms[n][2], 1), n + 1)

normalize_intent(intent) == ApplySynonyms(Lower(intent), 1)

\* re.findall(r"[a-z0-9+]+", s): the maximal runs of token characters
RECURSIVE RunsFrom(_, _, _)
RunsFrom(s, i, run) ==
    IF i > Len(s) THEN (IF run = <<>> THEN <<>> ELSE <<run>>)
    ELSE IF s[i] \in TokenChars THEN RunsFrom(s, i + 1, Append(run, s[i]))
    ELSE (IF run = <<>> THEN <<>> ELSE <<run>>) \o RunsFrom(s, i + 1, <<>>)

tokens(s) == SelectSeq(RunsFrom(Lower(s), 1, <<>>), LAMBDA t : t \notin STOPWORDS)

\* SequenceMatcher(None, a, b): the length of the block of equal characters
\* that starts at a[i] and b[j] within a[..ahi], b[..bhi]
RECURSIVE Ext(_, _, _, _, _, _)
Ext(a, b, i, j, ahi, bhi) ==
    IF i > ahi \/ j > bhi THEN 0
    ELSE IF a[i] # b[j] THEN 0
    ELSE 1 + Ext(a, b, i + 1, j + 1, ahi, bhi)

\* sum of the sizes of get_matching_blocks over a[alo..ahi], b[blo..bhi]:
\* find_longest_match takes the longest block, the one starting earliest in a
\* and then earliest in b, and the search goes on to its left and its right
RECURSIVE MatchCount(_, _, _, _, _, _)
MatchCount(a, alo, ahi, b, blo, bhi) ==
    LET starts == {p \in (alo..ahi) \X (blo..bhi) : a[p[1]] = b[p[2]]}
        blocks == {<<p[1], p[2], Ext(a, b, p[1], p[2], ahi, bhi)>> : p \in starts}
        k == SetMax({c[3] : c \in blocks})
        i == SetMin({c[1] : c \in {d \in blocks : d[3] = k}})
        j == SetMin({c[2] : c \in {d \in blocks : d[3] = k /\ d[1] = i}})
    IN  IF starts = {} THEN 0
        ELSE k + MatchCount(a, alo, i - 1, b, blo, j - 1)
               + MatchCount(a, i + k, ahi, b, j + k, bhi)

\* _ratio(a, b) = 2.0 * matches / (len(a) + len(b)), as a fraction
ratio(a, b) ==
    IF a = <<>> \/ b = <<>> THEN [num |-> 0, den |-> 1]
    ELSE [num |-> 2 * MatchCount(a, 1, Len(a), b, 1, Len(b)), den |-> Len(a) + Len(b)]

\* _fieldwise_fuzzy(intent_norm, fields)
RECURSIVE fieldwise_fuzzy(_, _)
fieldwise_fuzzy(intent_norm, fields) ==
    IF fields = <<>> THEN [num |-> 0, den |-> 1]
    ELSE LET f == fields[Len(fields)]
             best == fieldwise_fuzzy(intent_norm, SubSeq(fields, 1, Len(fields) - 1))
             r == ratio(intent_norm, Lower(f))
         IN  IF f # <<>> /\ ScoreGT(r, best) THEN r ELSE best

\* _token_overlap(intent_tokens, el_tokens)
Range(s) == {s[i] : i \in 1..Len(s)}
token_overlap(intent_tokens, el_tokens) ==
    IF intent_tokens = <<>> THEN [num |-> 0, den |-> 1]
    ELSE [num |-> Cardinality(Range(intent_tokens) \cap Range(el_tokens)),
          den |-> Max(1, Cardinality(Range(intent_tokens)))]

\* the weights of _score_element, in 1/100, and its thresholds
FuzzyWeight == 55
OverlapWeight == 35
RoleBonus == 6
TagBonus == 3
FillBonus == 10
InsideBonus == 8
OutsidePenalty == 4
QuotedBonus == 30
LongPenalty == 5
LongText == 120
LongJoined == 160
MinDialogSide == 10

ActivationWords == {<<"c", "l", "i", "c", "k">>,
                   <<"o", "p", "e", "n">>,
                   <<"c", "r", "e", "a", "t", "e">>,
                   <<"d", "e", "l", "e", "t", "e">>,
                   <<"s", "u", "b", "m", "i", "t">>}
FillWords == {<<"f", "i", "l", "l">>,
             <<"i", "n", "p", "u", "t">>,
             <<"t", "y", "p", "e">>}
ActivationRoles == {<<"b", "u", "t", "t", "o", "n">>,
                   <<"m", "e", "n", "u", "i", "t", "e", "m">>,
                   <<"l", "i", "n", "k">>}
ActivationTags == {<<"b", "u", "t", "t", "o", "n">>,
                  <<"a">>}
FillRoles == {<<"t", "e", "x", "t", "b", "o", "x">>,
             <<"c", "o", "m", "b", "o", "b", "o", "x">>}
FillTags == {<<"i", "n", "p", "u", "t">>,
            <<"t", "e", "x", "t", "a", "r", "e", "a">>}
DialogRole == <<"d", "i", "a", "l", "o", "g">>

\* _find_dialog_bounds over the first n elements: the largest role=dialog
\* element, the first one on equal area; area = 0 stands for None
NoBounds == [x |-> 0, y |-> 0, width |-> 0, height |-> 0, area |-> 0]
RECURSIVE DialogBoundsUpTo(_, _)
DialogBoundsUpTo(perceived, n) ==
    IF n = 0 THEN NoBounds
    ELSE LET best == DialogBoundsUpTo(perceived, n - 1)
             el == perceived[n]
             area == Max(0, el.width) * Max(0, el.height)
         IN  IF /\ Lower(el.role) = DialogRole
                /\ area > best.area
                /\ el.width > MinDialogSide
                /\ el.height > MinDialogSide
             THEN [x |-> el.x, y |-> el.y, width |-> el.width, height |-> el.height,
                   area |-> area]
             ELSE best
\* _find_dialog_bounds taking the first dialog-role element of sufficient size
find_dialog_bounds_first_found(perceived) ==
    LET ds == SelectSeq(perceived, LAMBDA el : /\ Lower(el.role) = DialogRole
                                               /\ el.width > MinDialogSide
                                               /\ el.height > MinDialogSide)
    IN  IF ds = <<>> THEN NoBounds
        ELSE [x |-> ds[1].x, y |-> ds[1].y, width |-> ds[1].width,
              height |-> ds[1].height, area |-> ds[1].width * ds[1].height]
find_dialog_bounds(perceived) == DialogBoundsUpTo(perceived, Len(perceived))

\* _inside(bounds, el)
inside(bounds, el) ==
    /\ el.x >= bounds.x
    /\ el.y >= bounds.y
    /\ el.x + el.width <= bounds.x + bounds.width
    /\ el.y + el.height <= bounds.y + bounds.height

\* the bonuses and penalties _score_element adds to the weighted sum, in 1/100
Adjustments(intent_norm, quoted, el, dialog_bounds) ==
    LET text == Strip(el.text)
        aria == Strip(el.aria_label)
        title == Strip(el.title)
        tip == Strip(el.tooltip)
        role == Lower(el.role)
        tag == Lower(el.tag)
        fields == {text, aria, title, tip}
        joined == text \o <<" ">> \o aria \o <<" ">> \o title \o <<" ">> \o tip
        activation == AnyIn(ActivationWords, intent_norm)
        fill == AnyIn(FillWords, intent_norm)
        q == Lower(quoted[1])
    IN    (IF activation /\ role \in ActivationRoles THEN RoleBonus ELSE 0)
        + (IF activation /\ tag \in ActivationTags THEN TagBonus ELSE 0)
        + (IF fill /\ (role \in FillRoles \/ tag \in FillTags) THEN FillBonus ELSE 0)
        + (IF dialog_bounds.area = 0 THEN 0
           ELSE IF inside(dialog_bounds, el) THEN InsideBonus ELSE 0 - OutsidePenalty)
        + (IF quoted # <<>> /\ q # <<>> /\ \E fld \in fields : q = Lower(Strip(fld))
           THEN QuotedBonus ELSE 0)
        - (IF Len(text) > LongText \/ Len(joined) > LongJoined THEN LongPenalty ELSE 0)

\* _score_element(intent_norm, intent_tokens, quoted, el, dialog_bounds)
score_element(intent_norm, intent_tokens, quoted, el, dialog_bounds) ==
    LET text == Strip(el.text)
        aria == Strip(el.aria_label)
        title == Strip(el.title)
        tip == Strip(el.tooltip)
        fields == <<text, aria, title, tip>>
        joined == text \o <<" ">> \o aria \o <<" ">> \o title \o <<" ">> \o tip
        fuzzy == fieldwise_fuzzy(intent_norm, fields)
        overlap == token_overlap(intent_tokens, tokens(joined))
        bonus == Adjustments(intent_norm, quoted, el, dialog_bounds)
    IN  IF text = <<>> /\ aria = <<>> /\ title = <<>> /\ tip = <<>>
        THEN Hundredths(ExcludedScore)
        ELSE [num |-> FuzzyWeight * fuzzy.num * overlap.den
                      + OverlapWeight * overlap.num * fuzzy.den
                      + bonus * fuzzy.den * overlap.den,
              den |-> 100 * fuzzy.den * overlap.den]

\* the element el with the score the loop of locate_element_for_intent and
\* of locate_top_candidates pairs it with: (s, el)
WithScore(el, s) ==
    [tag |-> el.tag, role |-> el.role, text |-> el.text, aria_label |-> el.aria_label,
     title |-> el.title, tooltip |-> el.tooltip,
     x |-> el.x, y |-> el.y, width |-> el.width, height |-> el.height, score |-> s]

RECURSIVE ScoreUpTo(_, _, _, _, _, _)
ScoreUpTo(intent_norm, intent_tokens, quoted, perceived, dialog_bounds, n) ==
    IF n = 0 THEN <<>>
    ELSE Append(ScoreUpTo(intent_norm, intent_tokens, quoted, perceived, dialog_bounds, n - 1),
                WithScore(perceived[n],
                          score_element(intent_norm, intent_tokens, quoted,
                                        perceived[n], dialog_bounds)))

\* for el in perceived: s = _score_element(...), with the arguments both
\* public functions compute from the intent and the snapshot
score_snapshot(intent, perceived) ==
    ScoreUpTo(normalize_intent(intent), tokens(normalize_intent(intent)),
              extract_all_quoted(intent), perceived, find_dialog_bounds(perceived),
              Len(perceived))

\* --------------------------------------------------- scorer: value domains
\* the intents of a step
LocIntents == {
    <<"C", "l", "i", "c", "k", " ", "'", "S", "a", "v", "e", "'">>,
    <<"F", "i", "l", "l", " ", "'", "P", "r", "o", "j", "e", "c", "t", " ", "N", "a", "m", "e", "'", " ", "f", "i", "e", "l", "d">>,
    <<"C", "l", "i", "c", "k", " ", "t", "h", "e", " ", "'", "N", "a", "m", "e", "'", " ", "i", "n", "p", "u", "t">>,
    <<"O", "p", "e", "n", " ", "s", "e", "t", "t", "i", "n", "g", "s">>,
    <<"O", "p", "e", "n", " ", "'", "E", "d", "i", "t", "'", " ", "'", "S", "a", "v", "e", "'">>}

\* a dialog-role element with no label
DialogElement ==
    [tag |-> <<"d", "i", "v">>, role |-> <<"d", "i", "a", "l", "o", "g">>, text |-> <<>>,
     aria_label |-> <<>>, title |-> <<>>, tooltip |-> <<>>,
     x |-> 0, y |-> 0, width |-> 200, height |-> 100]
\* the other elements of perception.json: the same label at two places
\* outside the dialog bounds, a label that repeats the intent's words, an
\* element without a label, one label inside and outside the dialog bounds
\* with different roles and tags, and a button
PageElements == {
    [tag |-> <<"d", "i", "v">>, role |-> <<>>, text |-> <<"S", "a", "v", "e">>,
     aria_label |-> <<>>, title |-> <<>>, tooltip |-> <<>>,
     x |-> 300, y |-> 0, width |-> 40, height |-> 20],
    [tag |-> <<"d", "i", "v">>, role |-> <<>>, text |-> <<"S", "a", "v", "e">>,
     aria_label |-> <<>>, title |-> <<>>, tooltip |-> <<>>,
     x |-> 300, y |-> 30, width |-> 40, height |-> 20],
    [tag |-> <<"b", "u", "t", "t", "o", "n">>, role |-> <<"b", "u", "t", "t", "o", "n">>, text |-> <<"c", "l", "i", "c", "k", " ", "s", "a", "v", "e">>,
     aria_label |-> <<>>, title |-> <<>>, tooltip |-> <<>>,
     x |-> 300, y |-> 0, width |-> 40, height |-> 20],
    [tag |-> <<"b", "u", "t", "t", "o", "n">>, role |-> <<"b", "u", "t", "t", "o", "n">>, text |-> <<" ">>,
     aria_label |-> <<>>, title |-> <<>>, tooltip |-> <<>>,
     x |-> 300, y |-> 0, width |-> 40, height |-> 20],
    [tag |-> <<"d", "i", "v">>, role |-> <<>>, text |-> <<"N", "a", "m", "e">>,
     aria_label |-> <<>>, title |-> <<>>, tooltip |-> <<>>,
     x |-> 10, y |-> 10, width |-> 40, height |-> 20],
    [tag |-> <<"i", "n", "p", "u", "t">>, role |-> <<"b", "u", "t", "t", "o", "n">>, text |-> <<"N", "a", "m", "e">>,
     aria_label |-> <<>>, title |-> <<>>, tooltip |-> <<>>,
     x |-> 300, y |-> 0, width |-> 40, height |-> 20],
    [tag |-> <<"b", "u", "t", "t", "o", "n">>, role |-> <<"b", "u", "t", "t", "o", "n">>, text |-> <<>>,
     aria_label |-> <<"P", "r", "o", "j", "e", "c", "t", " ", "N", "a", "m", "e">>, title |-> <<>>, tooltip |-> <<>>,
     x |-> 300, y |-> 0, width |-> 40, height |-> 20]}
\* dialog-role elements of other sizes: one of the largest area that is not
\* higher than the threshold, a small one, and one of DialogElement's area
\* around the elements at x = 300
ThinDialog ==
    [tag |-> <<"d", "i", "v">>, role |-> <<"d", "i", "a", "l", "o", "g">>, text |-> <<>>,
     aria_label |-> <<>>, title |-> <<>>, tooltip |-> <<>>,
     x |-> 0, y |-> 0, width |-> 3000, height |-> 10]
SmallDialog ==
    [tag |-> <<"d", "i", "v">>, role |-> <<"D", "i", "a", "l", "o", "g">>, text |-> <<>>,
     aria_label |-> <<>>, title |-> <<>>, tooltip |-> <<>>,
     x |-> 0, y |-> 0, width |-> 50, height |-> 50]
SideDialog ==
    [tag |-> <<"d", "i", "v">>, role |-> <<"d", "i", "a", "l", "o", "g">>, text |-> <<>>,
     aria_label |-> <<>>, title |-> <<>>, tooltip |-> <<>>,
     x |-> 290, y |-> 0, width |-> 100, height |-> 200]
\* the two role-less elements of the top row: "Name" inside DialogElement,
\* "Save" inside SideDialog
TopRowElements == {el \in PageElements : el.role = <<>> /\ el.y < 30}
\* snapshots with no dialog or one, over all the elements; snapshots with
\* dialogs of several sizes, over the elements of the top row
FullSnapshots ==
    {d \o s : d \in {<<>>, <<DialogElement>>}, s \in SeqsUpTo(PageElements, MaxSnapshot)}
    \cup {d \o s : d \in {<<ThinDialog>>,
                          <<ThinDialog, SmallDialog, SideDialog, DialogElement>>},
                   s \in SeqsUpTo(TopRowElements, MaxSnapshot)}
\* the values of k in locate_top_candidates(intent, perception_path, k)
Ks == {0, 1, 2, TopK}

\* --------------------------------------------------- scorer: the two calls
\* locate_element_for_intent and then locate_top_candidates, for one intent
\* and one perception.json
LocInit ==
    /\ plan \in {<<[intent |-> i, expected_state |-> <<>>]>> : i \in LocIntents}
    /\ step_idx = 1
    /\ pc = "locate"
    /\ perception_data \in FullSnapshots
    /\ page = NoPage
    /\ probe_fault = "none"
    /\ element = None
    /\ result = NoResult
    /\ ok = FALSE
    /\ step_json = [d \in 1..MaxPlan |-> NoRecord]
    /\ touched = Untouched
    /\ plan_files = {}
    /\ call = NoCall
    /\ runs = <<>>
    /\ missed = {}
    /\ fault = "none"
    /\ rpc = "idle"
    /\ attempt = 0
    /\ attempt0 = 0
    /\ max_attempts = DefaultMaxAttempts
    /\ previous_element = None
    /\ candidates = <<>>
    /\ ordered = <<>>
    /\ idx = 0
    /\ depth = 0
    /\ ret = NoReturn
    /\ last_result = NoResult
    /\ last_failed = NoBox
    /\ log = <<>>

\* element = locate_element_for_intent(intent, perception_path): the best
\* element, or None when perception.json cannot be read
LocateBest ==
    /\ pc = "locate"
    /\ \/ /\ element' = locate_element_for_intent(
                            score_snapshot(plan[1].intent, perception_data))
          /\ log' = Append(log, Event("locate", 1, 0))
       \/ /\ element' = None
          /\ log' = Append(log, Event("read_failed", 1, 0))
    /\ pc' = "located"
    /\ UNCHANGED <<touched, probe_fault, page, plan, xvars, step_idx, perception_data, result, ok,
                   step_json, missed, fault>>
    /\ UNCHANGED rvars

\* candidates = locate_top_candidates(intent, perception_path, k): the list,
\* or [] when perception.json cannot be read
LocateTop ==
    /\ pc = "located"
    /\ LET scored == score_snapshot(plan[1].intent, perception_data)
       IN  \E k \in Ks :
             /\ idx' = k
             /\ \/ /\ candidates' = locate_top_candidates(scored, k)
                   /\ log' = Append(log, Event("locate_top", 1, 0))
                \/ /\ candidates' = <<>>
                   /\ log' = Append(log, Event("read_failed", 1, 0))
    /\ pc' = "listed"
    /\ UNCHANGED <<rpc, attempt, attempt0, max_attempts, previous_element, ordered,
                   depth, ret, last_result, last_failed>>
    /\ UNCHANGED <<touched, probe_fault, page, plan, xvars, step_idx, perception_data, element, result,
                   ok, step_json, missed, fault>>

LocNext == LocateBest \/ LocateTop
LocSpec == LocInit /\ [][LocNext]_vars

\* ---------------------------------------------- properties of the scorer
LocIntent == plan[1].intent
BestRead == \E i \in 1..Len(log) : log[i].ev = "locate"
TopRead == \E i \in 1..Len(log) : log[i].ev = "locate_top"
Labels(el) == <<Strip(el.text), Strip(el.aria_label), Strip(el.title), Strip(el.tooltip)>>
Unlabelled(el) == Labels(el) = <<<<>>, <<>>, <<>>, <<>>>>
AllUnlabelled == \A i \in 1..Len(perception_data) : Unlabelled(perception_data[i])
SameElement(a, b) ==
    /\ a.tag = b.tag /\ a.role = b.role
    /\ a.text = b.text /\ a.aria_label = b.aria_label
    /\ a.title = b.title /\ a.tooltip = b.tooltip
    /\ BoxOf(a) = BoxOf(b)
Absent(el) == el.score = Hundredths(ExcludedScore)

LiteralMatches ==
    {i \in 1..Len(perception_data) :
        \E q \in Range(extract_all_quoted(LocIntent)) :
            q # <<>> /\ \E n \in 1..4 : Lower(Labels(perception_data[i])[n]) = Lower(q)}

\* C17: when a quoted literal of the intent equals a label of exactly one
\* element of the snapshot, that element is the best candidate.
C17_LiteralMatchIsBest ==
    (pc = "located" /\ BestRead /\ Cardinality(LiteralMatches) = 1) =>
        \A i \in LiteralMatches : SameElement(element, perception_data[i])

\* C18: with dialog bounds in the snapshot, an element outside the bounds never
\* scores strictly higher than an element inside them that has the same four
\* labels.
C18_InsideNotOutscored ==
    (pc = "listed" /\ TopRead /\ find_dialog_bounds(perception_data).area > 0) =>
        \A i, j \in 1..Len(candidates) :
            (/\ inside(find_dialog_bounds(perception_data), candidates[i])
             /\ ~inside(find_dialog_bounds(perception_data), candidates[j])
             /\ Labels(candidates[i]) = Labels(candidates[j]))
                => ~ScoreGT(candidates[j].score, candidates[i].score)

\* the labelled elements of the snapshot with their scores, in snapshot order
LabelledScored ==
    SelectSeq(score_snapshot(LocIntent, perception_data), LAMBDA el : ~Unlabelled(el))
\* L[i] comes before L[j]: its score is higher, or equal and i is earlier
Before(L, i, j) ==
    \/ ScoreGT(L[i].score, L[j].score)
    \/ ~ScoreGT(L[j].score, L[i].score) /\ i < j
PlaceOf(L, i) == 1 + Cardinality({j \in 1..Len(L) : j # i /\ Before(L, j, i)})
Ordering(L) == [r \in 1..Len(L) |-> L[CHOOSE i \in 1..Len(L) : PlaceOf(L, i) = r]]

FillIntent == AnyIn(FillWords, normalize_intent(LocIntent))
TextboxLike(el) == Lower(el.role) \in FillRoles \/ Lower(el.tag) \in FillTags

\* C20: for a fill intent and a snapshot with no textbox-like element (no role
\* textbox/combobox, no tag input/textarea) the best element is absent.
C20_FillNeedsTextbox ==
    (/\ pc = "located" /\ BestRead /\ FillIntent
     /\ \A i \in 1..Len(perception_data) : ~TextboxLike(perception_data[i]))
        => Absent(element)

\* some quoted literal of the intent, the first or a later one, equals one of
\* the four labels of el, whatever the case
AnyLiteralEquals(el) ==
    \E q \in Range(extract_all_quoted(LocIntent)) :
        q # <<>> /\ \E n \in 1..4 : Lower(Labels(el)[n]) = Lower(q)
\* the score el gets for the intent when the intent's literals are left out
ScoreWithoutLiterals(el) ==
    score_element(normalize_intent(LocIntent), tokens(normalize_intent(LocIntent)),
                  <<>>, el, find_dialog_bounds(perception_data))
\* a score plus b/100; the denominator of a score is a multiple of 100
PlusHundredths(s, b) == [num |-> s.num + b * (s.den \div 100), den |-> s.den]

\* C21: the quoted-literal bonus is part of an element's score exactly when
\* some quoted literal of the intent equals one of its labels.
C21_AnyLiteralBonus ==
    (pc = "listed" /\ TopRead) =>
        \A i \in 1..Len(candidates) :
            candidates[i].score =
                PlusHundredths(ScoreWithoutLiterals(candidates[i]),
                               IF AnyLiteralEquals(candidates[i]) THEN QuotedBonus ELSE 0)

\* -------------------------------------------- properties of recover_step (2)
Without(s, i) == SubSeq(s, 1, i - 1) \o SubSeq(s, i + 1, Len(s))
SameAsPrevious == {i \in 1..Len(candidates) : is_same(previous_element, candidates[i])}

\* C22: the ordering an attempt tries is the fresh top-K ordering with at most
\* one candidate removed, one whose box equals the previously failed
\* element's, the rest in ranked order; when the removal would leave nothing
\* the full ordering is tried.
C22_SingleRemoval ==
    rpc = "try" =>
        IF SameAsPrevious = {} THEN ordered = candidates
        ELSE \E i \in SameAsPrevious :
                 ordered = IF Without(candidates, i) = <<>> THEN candidates
                           ELSE Without(candidates, i)

\* C23: while a candidate remains, the executor is called on the remaining
\* candidates one at a time in ranked order; a call that answers fail or
\* raises is swallowed and the next candidate is tried; after the first
\* success there is no further executor call, perception or attempt.
C23_OneAtATimeUntilSuccess ==
    [][/\ (rpc = "try" /\ idx <= Len(ordered)) =>
              /\ idx = CountA("execute", attempt) + 1
              /\ log' = Append(log, Event("execute", step_idx, attempt))
              /\ \/ /\ last_result' = [status |-> "success", element |-> ordered[idx]]
                    /\ rpc' = "returned"
                 \/ /\ last_result'.status # "success"
                    /\ last_failed' = BoxOf(ordered[idx])
                    /\ rpc' = "try"
                    /\ idx' = idx + 1
                    /\ ordered' = ordered
       /\ last_result.status = "success" =>
              UNCHANGED <<log, perception_data, attempt, depth, rpc>>
      ]_vars

C23_Witness ==
    /\ rpc = "returned"
    /\ ret.recovered
    /\ ret.attempts = 2
    /\ CountA("execute", 1) = 2
    /\ CountA("execute", 2) = 2
    /\ CountEv("perceive") = 2

\* the calls of recovery attempt n, in the order they were made
AttemptLog(n) == SelectSeq(log, LAMBDA e : e.attempt = n)
Preparation == <<"stabilize", "dialog_wait", "close_popups", "perceive", "locate">>

\* C24: every attempt makes, in this order, the stabilisation, the dialog
\* wait, the overlay dismissal, a perception capture and the scoring, and only
\* then executor calls; the candidates of an attempt are computed from the
\* snapshot that attempt captured and stay those until the attempt ends.
C24_PrepareThenFreshCandidates ==
    /\ [](\A n \in 1..MaxAttempts :
              \A i \in 1..Len(AttemptLog(n)) :
                  AttemptLog(n)[i].ev =
                      IF i <= Len(Preparation) THEN Preparation[i]
                      ELSE IF i = Len(AttemptLog(n)) /\ n < attempt THEN "escape"
                      ELSE "execute")
    /\ [](rpc = "try" =>
              /\ CountA("perceive", attempt) = 1
              /\ candidates = Candidates(perception_data)
              /\ \A i \in 1..Len(ordered) :
                     \E j \in 1..Len(perception_data) : ordered[i] = perception_data[j])
    /\ [][/\ CountEv("perceive")' > CountEv("perceive") =>
                 \E snap \in Snapshots :
                     perception_data' = snap /\ candidates' = Candidates(snap)
          /\ (rpc = "try" /\ rpc' = "try") =>
                 UNCHANGED <<perception_data, candidates, ordered>>
          /\ ~(CountEv("perceive")' > CountEv("perceive")) =>
                 UNCHANGED perception_data
         ]_vars

C24_Witness ==
    /\ rpc = "try"
    /\ attempt = 2
    /\ attempt0 = 1
    /\ CountA("execute", 1) = 1
    /\ CountA("execute", 2) = 1
    /\ Len(perception_data) = 2
    /\ \A j \in 1..Len(perception_data) : perception_data[j] # previous_element

UrlOutcome == AnyIn(UrlWords, Outcome)
FieldValueOutcome == AnyIn(FieldWords, Outcome) /\ AnyIn(ValueWords, Outcome)

PreferredTextboxes ==
    IF page.dialogs # <<>> /\ Head(page.dialogs).textboxes # <<>>
    THEN Head(page.dialogs).textboxes
    ELSE PageTextboxes(page)
HoldsLiteral(tb, q) ==
    Contains(Lower(tb.value), Lower(q)) \/ Contains(Lower(tb.text), Lower(q))

\* C26: for an outcome that meets the field-value rule (and no earlier rule),
\* with no probe faulting: with a quoted literal the verdict is true exactly
\* when the first textbox-like element, one inside the open dialog if it has
\* one and else one of the page, holds the first literal in its value or
\* text; with no literal it is true exactly when a textbox-like element exists.
C26_FieldValueVerdict ==
    (/\ pc # "verify" /\ probe_fault = "none"
     /\ ~DialogOutcome /\ ~(UrlOutcome /\ Literals # <<>>) /\ FieldValueOutcome) =>
        /\ Returned
        /\ IF Literals = <<>> THEN ok <=> PageTextboxes(page) # <<>>
           ELSE ok <=> /\ PreferredTextboxes # <<>>
                       /\ HoldsLiteral(Head(PreferredTextboxes), Literals[1])

RoleOutcome == \E i \in 1..Len(RoleWords) : Contains(Outcome, RoleWords[i])
\* button before link before menuitem before tab
RoleChecked ==
    IF Contains(Outcome, <<"b", "u", "t", "t", "o", "n">>) THEN "button"
    ELSE IF Contains(Outcome, <<"l", "i", "n", "k">>) THEN "link"
    ELSE IF Contains(Outcome, <<"m", "e", "n", "u", "i", "t", "e", "m">>) THEN "menuitem"
    ELSE "tab"
RoleProbes == {"role_count", "role_wait"}

\* C27: for an outcome with a role keyword that meets no earlier rule: with a
\* quoted literal the verdict is that of the lookup of the first of button,
\* link, menuitem, tab whose keyword is in the outcome, named by the first
\* literal, and nothing else is probed; with no literal no role is looked up.
C27_RoleAndName ==
    (/\ pc # "verify"
     /\ ~DialogOutcome /\ ~(UrlOutcome /\ Literals # <<>>) /\ ~FieldValueOutcome
     /\ RoleOutcome) =>
        /\ Returned
        /\ Literals # <<>> =>
              /\ ProbesMade # {} /\ ProbesMade \subseteq RoleProbes
              /\ ok <=> /\ probe_fault = "none"
                        /\ \E c \in page.controls :
                               /\ c.role = RoleChecked
                               /\ Contains(Lower(c.name), Lower(Literals[1]))
        /\ Literals = <<>> => (ProbesMade \cap RoleProbes = {} /\ ok)

\* "tab button 'Save' 'Old'" is verified by a button named Save
C27_Witness ==
    /\ Returned /\ ~DialogOutcome /\ RoleOutcome /\ probe_fault = "none"
    /\ Contains(Outcome, <<"t", "a", "b">>) /\ Contains(Outcome, <<"b", "u", "t", "t", "o", "n">>)
    /\ Len(Literals) = 2
    /\ page.controls = {[role |-> "button", name |-> Literals[1]]}
    /\ ok

VisibleOutcome == AnyIn(VisibleWords, Outcome)
\* a text of the surface equals the literal or contains it, whatever the case
IsVisible(q) == \E t \in page.texts : Contains(Lower(t), Lower(q))
VisibleLiterals == {i \in 1..Len(Literals) : IsVisible(Literals[i])}

\* C28: when the outcome meets none of rules 1-5 and there is a quoted literal
\* (of the outcome, or of the intent when the outcome has none), the verdict
\* is true only if one of the literals is visible and, with no probe faulting,
\* exactly then; the literals are looked for in order, up to the first
\* visible one and no further; only visible-text probes are made.
C28_AnyLiteralVisible ==
    (/\ pc # "verify"
     /\ ~DialogOutcome /\ ~UrlOutcome /\ ~FieldValueOutcome /\ ~RoleOutcome
     /\ ~VisibleOutcome /\ Literals # <<>>) =>
        /\ Returned
        /\ ok => VisibleLiterals # {}
        /\ ProbesMade \subseteq {"text_exact", "text_exact_wait",
                                 "text_contains", "text_contains_wait"}
        /\ probe_fault = "none" =>
              /\ ok <=> VisibleLiterals # {}
              /\ CountEv("text_exact") =
                     IF VisibleLiterals = {} THEN Len(Literals) ELSE SetMin(VisibleLiterals)

\* 'Old' is not on the surface, 'Save' is, inside "save all"
C28_Witness ==
    /\ Returned /\ probe_fault = "none" /\ ~VisibleOutcome /\ ~RoleOutcome
    /\ Literals = << <<"O", "l", "d">>, <<"S", "a", "v", "e">> >>
    /\ page.texts = {<<"s", "a", "v", "e", " ", "a", "l", "l">>}
    /\ CountEv("text_exact") = 2
    /\ ok

\* the dialog-role elements of the snapshot wider and higher than the threshold
SizedDialogs ==
    {i \in 1..Len(perception_data) :
        /\ Lower(perception_data[i].role) = DialogRole
        /\ perception_data[i].width > MinDialogSide
        /\ perception_data[i].height > MinDialogSide}
AreaOf(i) == perception_data[i].width * perception_data[i].height
\* the one of largest area, the first of them on equal area
LargestDialog ==
    CHOOSE i \in SizedDialogs :
        \A j \in SizedDialogs : AreaOf(i) > AreaOf(j) \/ (AreaOf(i) = AreaOf(j) /\ i <= j)
WithinLargest(el) ==
    LET d == perception_data[LargestDialog]
    IN  /\ el.x >= d.x /\ el.y >= d.y
        /\ el.x + el.width <= d.x + d.width
        /\ el.y + el.height <= d.y + d.height
ScoreWithoutDialog(el) ==
    score_element(normalize_intent(LocIntent), tokens(normalize_intent(LocIntent)),
                  extract_all_quoted(LocIntent), el, NoBounds)

\* C29: the dialog bounds are the box of the dialog-role element of largest
\* area among those wider and higher than 10, the first of them on equal
\* area, and absent when there is none; a candidate's score has the dialog
\* adjustment (inside bonus or outside penalty against those bounds) exactly
\* when the bounds are present.
C29_DialogBounds ==
    /\ find_dialog_bounds(perception_data) =
           IF SizedDialogs = {} THEN NoBounds
           ELSE [x |-> perception_data[LargestDialog].x,
                 y |-> perception_data[LargestDialog].y,
                 width |-> perception_data[LargestDialog].width,
                 height |-> perception_data[LargestDialog].height,
                 area |-> AreaOf(LargestDialog)]
    /\ (pc = "listed" /\ TopRead /\ idx = TopK) =>
           \A i \in 1..Len(candidates) :
               candidates[i].score =
                   PlusHundredths(ScoreWithoutDialog(candidates[i]),
                                  IF SizedDialogs = {} THEN 0
                                  ELSE IF WithinLargest(candidates[i]) THEN InsideBonus
                                  ELSE 0 - OutsidePenalty)

\* four dialog-role elements, the largest too thin, two of equal area: the
\* bounds are those of the first of the two, one candidate is inside them and
\* one outside
C29_Witness ==
    /\ pc = "listed" /\ TopRead
    /\ Cardinality(SizedDialogs) = 3
    /\ \E i \in 1..Len(perception_data) :
          /\ Lower(perception_data[i].role) = DialogRole
          /\ i \notin SizedDialogs
          /\ AreaOf(i) > AreaOf(LargestDialog)
    /\ \E j \in SizedDialogs : j > LargestDialog /\ AreaOf(j) = AreaOf(LargestDialog)
    /\ Len(candidates) = 2
    /\ WithinLargest(candidates[1])
    /\ ~WithinLargest(candidates[2])

C32_RecoveryWithoutVerification ==
    /\ CountEv("verify") = 0
    /\ \A i \in 1..Len(log) : log[i].ev \notin Probes
    /\ ok = FALSE /\ probe_fault = "none" /\ pc = "recover"
    /\ rpc = "returned" =>
           (ret.recovered <=>
                (/\ last_result.status = "success"
                 /\ log # <<>>
                 /\ log[Len(log)].ev = "execute"))
    /\ last_result.status = "success" => (rpc = "returned" /\ ret.recovered)

\* a recovery reported on the first executor success while the step's
\* verdict is still false
C32_Witness ==
    /\ rpc = "returned"
    /\ ret.recovered
    /\ ret.attempts = 1
    /\ CountEv("execute") = 1
    /\ CountEv("verify") = 0
    /\ ~ok

\* ------------------------------------------------ properties of run_plan (2)
\* step k has an element and its record is being written or is written
PastVerification(k) ==
    \/ step_idx = k /\ pc \in {"persist", "sleep"}
    \/ k \notin missed /\ Count("persist", k) = 1

\* C33: for a step whose resolution found an element and whose executor call
\* answered, verify_step is called exactly once, after the executor and
\* whatever its status; the record written has the executor's status as
\* executor_status and the verdict as verified, and is not changed later.
C33_VerifiedOnceAndRecorded ==
    /\ [](\A k \in 1..MaxPlan :
              /\ Count("verify", k) <= 1
              /\ Count("verify", k) = 1 => (Count("execute", k) = 1 /\ k \notin missed)
              /\ PastVerification(k) => (Count("execute", k) = 1 /\ Count("verify", k) = 1)
              /\ k \in missed => Count("verify", k) = 0)
    /\ []((pc = "sleep") =>
              /\ result.status \in {"success", "fail"}
              /\ step_json[step_idx] = [step_id |-> step_idx,
                                        executor_status |-> result.status,
                                        verified |-> ok])
    /\ [][\A k \in 1..MaxPlan : step_json[k] # NoRecord => step_json'[k] = step_json[k]]_vars

\* a finished run whose first step is recorded with a failed executor call
\* and a true verdict
C33_Witness ==
    /\ pc = "done"
    /\ Count("execute", 1) = 1
    /\ Count("verify", 1) = 1
    /\ step_json[1] = [step_id |-> 1, executor_status |-> "fail", verified |-> TRUE]

\* ------------------------------------------------- planner: the plan cache
\* Calls of get_or_generate_plan(app_name, task), one after the other, over
\* the files under PLANS_DIR.  Retrieval and the generator are requests to
\* a remote service: each returns a value or raises.
PLANS_DIR == <<"p", "l", "a", "n", "s">>
AppNames == {<<"n", "o", "t", "i", "o", "n">>, <<"l", "i", "n", "e", "a", "r">>}
Tasks == {<<"A", "d", "d", " ", "P", "a", "g", "e">>,
          <<"a", "d", "d", "_", "p", "a", "g", "e">>,
          <<"G", "o">>}

\* s.replace(a, b) for one-character a and b
RECURSIVE Replace(_, _, _)
Replace(s, a, b) ==
    IF s = <<>> THEN <<>>
    ELSE <<IF Head(s) = a THEN b ELSE Head(s)>> \o Replace(Tail(s), a, b)

\* task_sanitized = task.lower().replace(" ", "_")
task_sanitized(task) == Replace(Lower(task), " ", "_")

\* plan_path = os.path.join(PLANS_DIR, app_name, f"{task_sanitized}.json")
plan_path(app_name, task) ==
    PLANS_DIR \o <<"/">> \o app_name \o <<"/">> \o task_sanitized(task) \o <<".", "j", "s", "o", "n">>

\* os.path.exists(plan_path)
Exists(path) == \E f \in plan_files : f.path = path
FileAt(path) == CHOOSE f \in plan_files : f.path = path

\* what generate_waypoints returns: the parsed answer of the model, or the
\* one-step plan that wraps an answer that is not JSON
GeneratedPlans ==
    {<<[intent |-> "Open the page menu", expected_state |-> "menu is visible"]>>,
     <<[intent |-> "Click 'New page'", expected_state |-> "dialog opens"],
       [intent |-> "Fill the title", expected_state |-> "field value is set"]>>,
     <<[intent |-> "error_parsing_plan", raw_output |-> "Sure, here is the plan"]>>}

\* json.dump(plan, f, indent=2) writes the document of the plan and
\* json.load(f) reads a document back; a write that raises part-way leaves
\* the file open(plan_path, "w") created, holding no document
json_dump(waypoints) == [complete |-> TRUE, document |-> waypoints]
Truncated == [complete |-> FALSE, document |-> <<>>]
json_load(content) == content.document

Invocation(fn, app_name, task) == [ev |-> fn, app_name |-> app_name, task |-> task]

PlanInit ==
    /\ plan = <<>>
    /\ step_idx = 0
    /\ pc = "idle"
    /\ page = NoPage
    /\ probe_fault = "none"
    /\ perception_data = <<>>
    /\ element = None
    /\ result = NoResult
    /\ ok = FALSE
    /\ step_json = [d \in 1..MaxPlan |-> NoRecord]
    /\ touched = Untouched
    /\ plan_files = {}
    /\ call = NoCall
    /\ runs = <<>>
    /\ missed = {}
    /\ fault = "none"
    /\ rpc = "idle"
    /\ attempt = 0
    /\ attempt0 = 0
    /\ max_attempts = DefaultMaxAttempts
    /\ previous_element = None
    /\ candidates = <<>>
    /\ ordered = <<>>
    /\ idx = 0
    /\ depth = 0
    /\ ret = NoReturn
    /\ last_result = NoResult
    /\ last_failed = NoBox
    /\ log = <<>>

\* get_or_generate_plan(app_name, task): the stored plan when the file of
\* the key exists; otherwise retrieval, then the generator, then the write
\* of the plan, each of which may raise and end the call
get_or_generate_plan(app_name, task) ==
    LET path == plan_path(app_name, task)
        Ended(outcome, value) ==
            [n |-> call.n + 1, app_name |-> app_name, task |-> task,
             existed |-> Exists(path), outcome |-> outcome, value |-> value]
        retrieval == Invocation("get_relevant_chunks", app_name, task)
        generator == Invocation("generate_waypoints", app_name, task)
    IN  /\ call.n < MaxCalls
        /\ IF Exists(path)
           THEN \* with open(plan_path, "r") as f: return json.load(f)
                /\ call' = IF FileAt(path).content.complete
                           THEN Ended("returned", json_load(FileAt(path).content))
                           ELSE Ended("raised", <<>>)
                /\ UNCHANGED <<plan_files, log>>
           ELSE \/ \* get_relevant_chunks raises: no index built for the
                   \* application, or the embedding request fails
                   /\ call' = Ended("raised", <<>>)
                   /\ log' = Append(log, retrieval)
                   /\ UNCHANGED plan_files
                \/ \* generate_waypoints raises: the completion request fails
                   /\ call' = Ended("raised", <<>>)
                   /\ log' = log \o <<retrieval, generator>>
                   /\ UNCHANGED plan_files
                \/ \E waypoints \in GeneratedPlans :
                     /\ log' = log \o <<retrieval, generator>>
                     /\ \/ \* the plan is written and returned
                           /\ plan_files' = plan_files \cup
                                  {[path |-> path, content |-> json_dump(waypoints)]}
                           /\ call' = Ended("returned", waypoints)
                        \/ \* the write raises after the file was created
                           /\ plan_files' = plan_files \cup
                                  {[path |-> path, content |-> Truncated]}
                           /\ call' = Ended("raised", <<>>)
        /\ UNCHANGED <<ovars, rvars, runs>>

PlanNext == \E app_name \in AppNames, task \in Tasks : get_or_generate_plan(app_name, task)
PlanSpec == PlanInit /\ [][PlanNext]_vars

\* ------------------------------------------- properties of the plan cache
\* the key of a call and the file that holds its plan
Keys == {<<app_name, task_sanitized(task)>> : app_name \in AppNames, task \in Tasks}
CallPath == plan_path(call.app_name, call.task)
\* how often the generator was invoked for a key
GeneratorCalls(key) ==
    Cardinality({i \in 1..Len(log) : /\ log[i].ev = "generate_waypoints"
                                     /\ log[i].app_name = key[1]
                                     /\ task_sanitized(log[i].task) = key[2]})
HitEnds == call'.n > call.n /\ call'.existed
MissEnds == call'.n > call.n /\ ~call'.existed

\* C31: in any sequence of get_or_generate_plan calls, a call that finds the
\* plan file of its key (app_name, lower-cased task with spaces replaced by
\* underscores) returns the stored plan and invokes neither retrieval nor
\* the generator; a call that finds no file invokes the generator once,
\* stores the plan it gave and returns it; so no key has the generator
\* invoked more than once and a stored plan is never replaced.
C31_CachedPlanGeneratedOnce ==
    /\ [](call.n > 0 /\ call.existed =>
              /\ call.outcome = "returned"
              /\ call.value = json_load(FileAt(CallPath).content))
    /\ [][HitEnds => log' = log]_vars
    /\ [][MissEnds =>
              /\ Len(log') = Len(log) + 2
              /\ log'[Len(log')].ev = "generate_waypoints"
              /\ call'.outcome = "returned"
              /\ Exists(CallPath)'
              /\ FileAt(CallPath)'.content = json_dump(call'.value)]_vars
    /\ [](\A key \in Keys : GeneratorCalls(key) <= 1)
    /\ [][\A f \in plan_files : f \in plan_files']_vars

\* ------------------------------------------------- executor: execute_action
\* execute_action(page, element, intent, step_id, dataset_dir) as a function
\* of the surface, the element record and the intent.  The surface names
\* the requests that raise on it (page.raises); what the call asks the
\* surface to do is the sequence of its acts.
FillKeywords == {<<"f", "i", "l", "l">>, <<"e", "n", "t", "e", "r">>, <<"t", "y", "p", "e">>, <<"i", "n", "p", "u", "t">>}
OpenKeywords == {<<"o", "p", "e", "n">>, <<"n", "a", "v", "i", "g", "a", "t", "e">>, <<"g", "o", " ", "t", "o">>}
NameWord == <<"n", "a", "m", "e">>
DemoProject == <<"D", "e", "m", "o", " ", "P", "r", "o", "j", "e", "c", "t">>
TestValue == <<"T", "e", "s", "t", " ", "V", "a", "l", "u", "e">>
AriaKey == <<"a", "r", "i", "a", "-", "l", "a", "b", "e", "l", "=">>
Quotes == {"'", "\""}

\* an optional str: <<>> is None, <<s>> is the str s
Truthy(opt) == opt # <<>> /\ opt[1] # <<>>

\* _extract_quoted(intent): the first match of LABEL_QUOTED_RE, stripped
extract_quoted(intent) ==
    LET all == extract_all_quoted(intent)
    IN  IF all = <<>> THEN <<>> ELSE <<Head(all)>>

\* _extract_aria_label(intent): the first match of
\* aria-label=['"]([^'"]+)['"] whatever the case, stripped: the key, a
\* quote, the longest run of characters that are no quotes, which must not
\* be empty, and a quote
extract_aria_label(intent) ==
    LET n == Len(AriaKey)
        RunEnd(q) == SetMin({j \in (q + 1)..(Len(intent) + 1) :
                                 j = Len(intent) + 1 \/ intent[j] \in Quotes})
        starts == {i \in 1..Len(intent) :
                       /\ i + n <= Len(intent)
                       /\ Lower(SubSeq(intent, i, i + n - 1)) = AriaKey
                       /\ intent[i + n] \in Quotes
                       /\ RunEnd(i + n) > i + n + 1
                       /\ RunEnd(i + n) <= Len(intent)}
    IN  IF starts = {} THEN <<>>
        ELSE LET q == SetMin(starts) + n
             IN  <<Strip(SubSeq(intent, q + 1, RunEnd(q) - 1))>>

\* _classify_action(intent): (action, value, label)
classify_action(intent) ==
    LET intent_l == Lower(intent)
        quoted == extract_quoted(intent)
    IN  IF AnyIn(FillKeywords, intent_l)
        THEN [action |-> "fill",
              value |-> IF Truthy(quoted) THEN quoted
                        ELSE IF Contains(intent_l, NameWord) THEN <<DemoProject>>
                        ELSE <<TestValue>>,
              label |-> <<>>]
        ELSE IF AnyIn(OpenKeywords, intent_l)
        THEN [action |-> "open", value |-> <<>>, label |-> quoted]
        ELSE [action |-> "click", value |-> <<>>, label |-> quoted]

\* one request made to the surface
Act(op, target, text, at) == [op |-> op, target |-> target, text |-> text, at |-> at]

\* LABEL_RE and PLACEHOLDER_RE, searched whatever the case: each finds a
\* match exactly when the text holds "name" or "title"
NameLike(s) == AnyIn({NameWord, <<"t", "i", "t", "l", "e">>}, Lower(s))

\* _resolve_textbox_scope(scope) over the textbox-like elements of the
\* scope in document order: by label, by placeholder, by role, then
\* input[type='text']/textarea, then [contenteditable='true']; a strategy
\* that raises is passed over
resolve_textbox_scope(boxes, raises) ==
    LET labelled == SelectSeq(boxes, LAMBDA b : NameLike(b.label))
        hinted == SelectSeq(boxes, LAMBDA b : NameLike(b.placeholder))
        inputs == SelectSeq(boxes, LAMBDA b : b.kind = "input")
        editables == SelectSeq(boxes, LAMBDA b : b.kind = "editable")
    IN  IF "by_label" \notin raises /\ labelled # <<>> THEN <<Head(labelled)>>
        ELSE IF "by_placeholder" \notin raises /\ hinted # <<>> THEN <<Head(hinted)>>
        ELSE IF "by_role" \notin raises /\ boxes # <<>> THEN <<Head(boxes)>>
        ELSE IF "by_css" \notin raises /\ inputs # <<>> THEN <<Head(inputs)>>
        ELSE IF "by_editable" \notin raises /\ editables # <<>> THEN <<Head(editables)>>
        ELSE <<>>

\* _resolve_textbox(page): the dialogs' textbox if there is a dialog and it
\* has one, else the page's
resolve_textbox(pg) ==
    LET inDialog == IF "dialog_count" \notin pg.raises /\ pg.dialogs # <<>>
                    THEN resolve_textbox_scope(DialogTextboxes(pg.dialogs), pg.raises)
                    ELSE <<>>
    IN  IF inDialog # <<>> THEN inDialog
        ELSE resolve_textbox_scope(PageTextboxes(pg), pg.raises)

\* get_by_role(role, name=name): the controls of that role whose accessible
\* name contains name, whatever the case
ByRole(pg, role, name) ==
    {c \in pg.controls : c.role = role /\ Contains(Lower(c.name), Lower(name))}

\* the fill branch: the textbox is resolved from the surface alone, clicked
\* (a raise is passed over) and filled, or typed into when fill raises
fill_branch(pg, value) ==
    LET tb == resolve_textbox(pg)
        text == IF Truthy(value) THEN value[1] ELSE DemoProject
        clicked == IF "textbox_click" \in pg.raises THEN <<>>
                   ELSE <<Act("click", tb[1].id, <<>>, <<>>)>>
    IN  IF tb = <<>> THEN [error |-> "No textbox found to fill.", acts |-> <<>>]
        ELSE IF "fill" \notin pg.raises
        THEN [error |-> "", acts |-> clicked \o <<Act("fill", tb[1].id, text, <<>>)>>]
        ELSE IF "keyboard_type" \notin pg.raises
        THEN [error |-> "", acts |-> clicked \o <<Act("type", "focus", text, <<>>)>>]
        ELSE [error |-> "keyboard_type", acts |-> clicked]

\* the click and open branch: the aria-label of the intent, then a menu
\* item, a button, a link or a text named by its label, and otherwise the
\* element record el: a handle by its role or tag and text, by its text, or a
\* click on the centre of its box
click_branch(pg, el, label, aria_label) ==
    LET works == "click" \notin pg.raises
        byAria == Truthy(aria_label) /\ works
                  /\ \E c \in pg.controls : Contains(c.aria, aria_label[1])
        byMenu == Truthy(label) /\ works /\ ByRole(pg, "menuitem", label[1]) # {}
        byLabel == Truthy(label) /\ works
                   /\ \/ ByRole(pg, "button", label[1]) # {}
                      \/ ByRole(pg, "link", label[1]) # {}
                      \/ \E t \in pg.texts : Contains(Lower(t), Lower(label[1]))
        name == Strip(el.text)
        tag == Lower(el.tag)
        role == Lower(el.role)
        handle == IF role = <<"b", "u", "t", "t", "o", "n">> \/ tag = <<"b", "u", "t", "t", "o", "n">> THEN <<"button">>
                  ELSE IF role = <<"l", "i", "n", "k">> \/ tag = <<"a">> THEN <<"link">>
                  ELSE IF role = <<"d", "i", "a", "l", "o", "g">> THEN <<"dialog">>
                  ELSE IF name # <<>> THEN <<"text">>
                  ELSE <<>>
        found == \/ handle = <<"dialog">> /\ pg.dialogs # <<>>
                 \/ handle \in {<<"button">>, <<"link">>} /\ ByRole(pg, handle[1], name) # {}
                 \/ handle = <<"text">> /\ name \in pg.texts
    IN  IF byAria THEN [error |-> "", acts |-> <<Act("click", "aria-label", aria_label[1], <<>>)>>]
        ELSE IF byMenu THEN [error |-> "", acts |-> <<Act("click", "menuitem", label[1], <<>>)>>]
        ELSE IF byLabel
        THEN [error |-> "",
              acts |-> <<Act("click",
                             IF ByRole(pg, "button", label[1]) # {} THEN "button"
                             ELSE IF ByRole(pg, "link", label[1]) # {} THEN "link"
                             ELSE "text",
                             label[1], <<>>)>>]
        ELSE IF handle # <<>>
        THEN IF works /\ found
             THEN [error |-> "", acts |-> <<Act("click", handle[1], name, <<>>)>>]
             ELSE [error |-> "click", acts |-> <<>>]
        ELSE IF works
        THEN [error |-> "",
              acts |-> <<Act("click", "point", <<>>,
                             <<2 * el.x + Max(el.width, 1),
                               2 * el.y + Max(el.height, 1)>>)>>]
        ELSE [error |-> "click", acts |-> <<>>]

\* no result yet
NoOutcome == [status |-> "none"]

\* execute_action filling the located element instead: a click on the
\* centre of its box, then the value typed
execute_action_fill_located(pg, el, intent) ==
    LET c == classify_action(intent)
        aria_label == extract_aria_label(intent)
        branch == IF c.action = "fill"
                  THEN [error |-> IF "click" \in pg.raises THEN "click" ELSE "",
                        acts |-> IF "click" \in pg.raises THEN <<>>
                                 ELSE <<Act("click", "point", <<>>,
                                            <<2 * el.x + Max(el.width, 1),
                                              2 * el.y + Max(el.height, 1)>>),
                                        Act("type", "focus", c.value[1], <<>>)>>]
                  ELSE click_branch(pg, el, c.label, aria_label)
        error == IF branch.error # "" THEN branch.error
                 ELSE IF "screenshot_after" \in pg.raises THEN "screenshot_after"
                 ELSE ""
    IN  IF "screenshot_before" \in pg.raises
        THEN [raised |-> TRUE, result |-> NoOutcome, acts |-> <<>>]
        ELSE [raised |-> FALSE, acts |-> branch.acts,
              result |-> IF error = ""
                         THEN [status |-> "success", action |-> c.action, intent |-> intent,
                               label |-> c.label, aria_label |-> aria_label,
                               used_text |-> el.text, tag |-> el.tag]
                         ELSE [status |-> "fail", action |-> c.action, intent |-> intent,
                               label |-> c.label, aria_label |-> aria_label,
                               error |-> error,
                               used_text |-> el.text, tag |-> el.tag]]

\* execute_action: the first screenshot is taken outside the try block, so
\* its raise escapes; every other raise is answered with status fail, the
\* second screenshot's included.  The result names the element record in
\* used_text and tag only.
execute_action(pg, el, intent) ==
    LET c == classify_action(intent)
        aria_label == extract_aria_label(intent)
        branch == IF c.action = "fill" THEN fill_branch(pg, c.value)
                  ELSE click_branch(pg, el, c.label, aria_label)
        error == IF branch.error # "" THEN branch.error
                 ELSE IF "screenshot_after" \in pg.raises THEN "screenshot_after"
                 ELSE ""
    IN  IF "screenshot_before" \in pg.raises
        THEN [raised |-> TRUE, result |-> NoOutcome, acts |-> <<>>]
        ELSE [raised |-> FALSE, acts |-> branch.acts,
              result |-> IF error = ""
                         THEN [status |-> "success", action |-> c.action, intent |-> intent,
                               label |-> c.label, aria_label |-> aria_label,
                               used_text |-> el.text, tag |-> el.tag]
                         ELSE [status |-> "fail", action |-> c.action, intent |-> intent,
                               label |-> c.label, aria_label |-> aria_label,
                               error |-> error,
                               used_text |-> el.text, tag |-> el.tag]]

ExeIntents == {<<"F", "i", "l", "l", " ", "t", "h", "e", " ", "p", "r", "o", "j", "e", "c", "t", " ", "n", "a", "m", "e">>,
               <<"T", "y", "p", "e", " ", "'", "A", "c", "m", "e", "'", " ", "i", "n", " ", "t", "h", "e", " ", "t", "i", "t", "l", "e">>,
               <<"C", "l", "i", "c", "k", " ", "'", "S", "a", "v", "e", "'">>,
               <<"O", "p", "e", "n", " ", "s", "e", "t", "t", "i", "n", "g", "s">>,
               <<"P", "r", "e", "s", "s", " ", "a", "r", "i", "a", "-", "l", "a", "b", "e", "l", "=", "'", "M", "o", "r", "e", "'">>}
\* textbox-like elements: one found by its label, one by its placeholder,
\* one by role only, one that is editable content
ExeBoxes ==
    [name |-> [id |-> "name-box", kind |-> "input", label |-> <<"P", "r", "o", "j", "e", "c", "t", " ", "n", "a", "m", "e">>, placeholder |-> <<>>],
     title |-> [id |-> "title-box", kind |-> "input", label |-> <<>>, placeholder |-> <<"E", "n", "t", "e", "r", " ", "a", " ", "t", "i", "t", "l", "e">>],
     notes |-> [id |-> "notes-box", kind |-> "input", label |-> <<"N", "o", "t", "e", "s">>, placeholder |-> <<>>],
     editor |-> [id |-> "editor", kind |-> "editable", label |-> <<>>, placeholder |-> <<>>]]
ExeDialogs == {<<>>,
               <<[textboxes |-> <<>>]>>,
               <<[textboxes |-> <<ExeBoxes.notes, ExeBoxes.title>>]>>,
               <<[textboxes |-> <<ExeBoxes.editor>>], [textboxes |-> <<ExeBoxes.name>>]>>}
\* the requests that raise on a surface
ExeRaises ==
    {{}}
    \cup {{r} : r \in {"screenshot_before", "dialog_count", "by_label", "by_placeholder",
                       "by_role", "by_css", "by_editable", "textbox_click", "fill",
                       "keyboard_type", "click", "screenshot_after"}}
    \cup {{"fill", "keyboard_type"}, {"by_label", "by_placeholder"}, {"fill", "textbox_click"}}
\* a surface with no controls and no texts, and one with both
ExeFurniture ==
    {[controls |-> {}, texts |-> {}],
     [controls |-> {[role |-> "button", name |-> <<"S", "a", "v", "e">>, aria |-> <<>>],
                    [role |-> "menuitem", name |-> <<"S", "e", "t", "t", "i", "n", "g", "s">>, aria |-> <<"M", "o", "r", "e">>]},
      texts |-> {<<"S", "a", "v", "e">>}]}
ExePages ==
    {[dialogs |-> d, textboxes |-> t, controls |-> f.controls, texts |-> f.texts,
      raises |-> r] :
         d \in ExeDialogs, t \in {<<>>, <<ExeBoxes.notes>>, <<ExeBoxes.editor, ExeBoxes.name>>},
         f \in ExeFurniture, r \in ExeRaises}
\* element records of a snapshot that differ in text, tag, role or box
ExeElements == {el \in PageElements : el.y < 30 /\ Strip(el.text) # <<>>}

Pending(el) == [element |-> el, done |-> FALSE, raised |-> FALSE,
                result |-> NoOutcome, acts |-> <<>>]

\* two calls of execute_action for one intent on one surface, with
\* different element records
ExeInit ==
    /\ plan \in {<<[intent |-> i, expected_state |-> <<>>]>> : i \in ExeIntents}
    /\ step_idx = 1
    /\ pc = "execute"
    /\ page \in ExePages
    /\ runs \in {<<Pending(pair[1]), Pending(pair[2])>> :
                    pair \in {p \in ExeElements \X ExeElements : p[1] # p[2]}}
    /\ probe_fault = "none"
    /\ perception_data = <<>>
    /\ element = None
    /\ result = NoResult
    /\ ok = FALSE
    /\ step_json = [d \in 1..MaxPlan |-> NoRecord]
    /\ touched = Untouched
    /\ plan_files = {}
    /\ call = NoCall
    /\ missed = {}
    /\ fault = "none"
    /\ rpc = "idle"
    /\ attempt = 0
    /\ attempt0 = 0
    /\ max_attempts = DefaultMaxAttempts
    /\ previous_element = None
    /\ candidates = <<>>
    /\ ordered = <<>>
    /\ idx = 0
    /\ depth = 0
    /\ ret = NoReturn
    /\ last_result = NoResult
    /\ last_failed = NoBox
    /\ log = <<>>

\* the i-th call: result = await execute_action(page, element, intent, ...)
\* from the surface as it was given; both screenshots go to the step's
\* directory
ExecuteAction(i) ==
    /\ pc = "execute"
    /\ ~runs[i].done
    /\ LET r == execute_action(page, runs[i].element, plan[1].intent)
       IN  runs' = [runs EXCEPT ![i] = [element |-> @.element, done |-> TRUE,
                                        raised |-> r.raised, result |-> r.result,
                                        acts |-> r.acts]]
    /\ touched' = Touch(step_idx, {"captures"})
    /\ UNCHANGED <<probe_fault, page, plan, plan_files, call, step_idx, pc, perception_data,
                   element, result, ok, step_json, missed, fault, log>>
    /\ UNCHANGED rvars

ExeNext == \E i \in 1..2 : ExecuteAction(i)
ExeSpec == ExeInit /\ [][ExeNext]_vars

\* -------------------------------------------- properties of execute_action
ClassifiedFill == classify_action(plan[1].intent).action = "fill"
Metadata == {"used_text", "tag"}
BothRan == Len(runs) = 2 /\ runs[1].done /\ runs[2].done

\* C34: for an intent classified as fill, two calls of execute_action on
\* the same surface and intent with different element records ask the
\* surface for the same acts (the same textbox filled with the same value),
\* end the same way with the same status, and their results differ in
\* nothing but used_text and tag, which repeat the record passed in.
C34_FillIndependentOfElement ==
    (BothRan /\ ClassifiedFill) =>
        /\ runs[1].acts = runs[2].acts
        /\ runs[1].raised = runs[2].raised
        /\ DOMAIN runs[1].result = DOMAIN runs[2].result
        /\ \A k \in DOMAIN runs[1].result \ Metadata : runs[1].result[k] = runs[2].result[k]
        /\ \A i \in 1..2 : ~runs[i].raised =>
               /\ runs[i].result.used_text = runs[i].element.text
               /\ runs[i].result.tag = runs[i].element.tag

\* both calls made for a fill intent with records of different text and
\* tag, a textbox filled and success reported
C34_Witness ==
    /\ BothRan /\ ClassifiedFill
    /\ runs[1].element.text # runs[2].element.text
    /\ runs[1].element.tag # runs[2].element.tag
    /\ runs[1].result.status = "success"
    /\ \E a \in 1..Len(runs[1].acts) : runs[1].acts[a].op = "fill"
    /\ runs[1].result.used_text # runs[2].result.used_text

====
